---- MODULE Spec2Model ----
(***************************************************************************)
(* Interview Coach: the LLM orchestration core (src/src/core/llm.py) and   *)
(* the session host's connection state (src/app.py).                       *)
(*                                                                         *)
(* A text is a sequence of characters; a character is a one-character      *)
(* string (U201C, U201D and BACKTICK stand for the two "smart" double      *)
(* quotes and for the backquote).                                          *)
(* Sequences are 1-based: a Python index i is i + 1 here and the Python    *)
(* result -1 of str.find is 0 here.                                        *)
(***************************************************************************)
EXTENDS Integers, Sequences, FiniteSets, TLC

VARIABLES
    \* ---- Text Repair Engine (_ej, _repair_json) ----
    text,          \* the text handed to the function under study
    json_op,       \* which function was applied: "none", "_ej", "_repair_json"
    json_out,      \* what it returned (or that it raised)
    json_src,      \* how the input was built: kind, inner JSON text, cut position
    \* ---- Retry Controller and the structured tasks ----
    task,          \* the caller of _call_with_retry
    temperature,   \* the caller's temperature, in hundredths
    retries,       \* the attempt ceiling
    attempt,       \* loop variable of _call_with_retry
    last_err,      \* last_err of _call_with_retry
    calls,         \* the backend invocations made so far, oldest first
    raw,           \* what _call_with_retry returned to the task
    task_pc,       \* "idle", "calling", "returned", "raised"
    task_out,      \* the error raised, or the value or text returned, by the task
    \* ---- Session host (st.session_state of app.py) ----
    provider,      \* backend identity stored by the last successful connect
    api_key,       \* credential stored with it
    model,         \* model id stored with it
    connected,
    sel_prov,      \* the provider selected in the sidebar selectbox
    page,          \* "home", "setup", "session", "report", "chat"
    session_plan,
    current_q_idx,
    session_data,  \* one record per graded answer, oldest first
    last_grade,
    show_tip,
    followup_mode,
    session_report,
    issued,        \* the task call made by the latest UI event, if any
    \* ---- grade_answer ----
    category,      \* the category of the question being graded
    parsed,        \* what _ej(raw) gives: a dict, another value, or an error
    grade_ctype,   \* ctype of grade_answer: the rubric type of the category
    grade_pc,      \* "ready" before grade_answer runs, "done" after
    grade_out,     \* the dict grade_answer returns, or the error it raises
    \* ---- one call of a helper of llm.py: its arguments, what the world ----
    \* ---- answered, and what the call returned or raised               ----
    trim_call,        \* _trim and _ollama_trim
    verify_call,      \* verify_connection
    models_call,      \* get_ollama_models
    transcribe_call,  \* transcribe_audio
    root_call         \* _ollama_root and _ollama_base

varsJson  == <<text, json_op, json_out, json_src>>
varsRetry == <<task, temperature, retries, attempt, last_err, calls, raw, task_pc, task_out>>
varsConn  == <<provider, api_key, model, connected>>
varsSess  == <<session_plan, current_q_idx, session_data, last_grade, show_tip,
               followup_mode, session_report>>
varsApp   == <<varsConn, sel_prov, page, varsSess, issued>>
varsGrade == <<category, parsed, grade_ctype, grade_pc, grade_out>>
varsCalls == <<trim_call, verify_call, models_call, transcribe_call, root_call>>
vars      == <<varsJson, varsRetry, varsApp, varsGrade, varsCalls>>

None == "None"

Max(a, b) == IF a >= b THEN a ELSE b
Min(a, b) == IF a <= b THEN a ELSE b

(***************************************************************************)
(* Characters                                                              *)
(***************************************************************************)
LBrace    == "{"
RBrace    == "}"
LBracket  == "["
RBracket  == "]"
Quote     == "\""
Backslash == "\\"
Comma     == ","
Colon     == ":"
Space     == " "
Newline   == "\n"
Backtick  == "BACKTICK"
SmartL    == "U201C"
SmartR    == "U201D"

\* str.strip / str.rstrip / the regex class \s / JSON whitespace, within the alphabet
Whitespace == {Space, Newline}
Digits     == {"1", "2"}

\* text[a-1 : b] of Python, for 1-based a..b
Slice(s, a, b) == IF a > b THEN <<>> ELSE SubSeq(s, a, b)

\* str.find(ch) from position `from`: the first index of ch, 0 when absent
RECURSIVE FindFrom(_, _, _)
FindFrom(s, ch, from) ==
    IF from > Len(s) THEN 0
    ELSE IF s[from] = ch THEN from
    ELSE FindFrom(s, ch, from + 1)

Find(s, ch) == FindFrom(s, ch, 1)

\* first index at or after i that is not whitespace (Len(s) + 1 when none)
RECURSIVE SkipWs(_, _)
SkipWs(s, i) ==
    IF i > Len(s) THEN Len(s) + 1
    ELSE IF s[i] \in Whitespace THEN SkipWs(s, i + 1)
    ELSE i

\* str.rstrip()
RECURSIVE RStrip(_)
RStrip(s) ==
    IF s = <<>> THEN s
    ELSE IF s[Len(s)] \in Whitespace THEN RStrip(SubSeq(s, 1, Len(s) - 1))
    ELSE s

\* str.strip()
Strip(s) ==
    LET r == RStrip(s)
    IN  Slice(r, SkipWs(r, 1), Len(r))

\* ch * n
RECURSIVE Repeat(_, _)
Repeat(ch, n) == IF n <= 0 THEN <<>> ELSE <<ch>> \o Repeat(ch, n - 1)

(***************************************************************************)
(* json.loads, restricted to the alphabet: objects, arrays, strings with   *)
(* the escapes \" \\ \n, and unsigned integers.  A value is a record with  *)
(* a type tag; an object is a function from its keys to its values, so a   *)
(* repeated key keeps its last value and member order is irrelevant, as in *)
(* a Python dict.                                                          *)
(***************************************************************************)
JStr(x) == [t |-> "str", s |-> x,    items |-> <<>>, m |-> <<>>]
JNum(x) == [t |-> "num", s |-> x,    items |-> <<>>, m |-> <<>>]
JArr(x) == [t |-> "arr", s |-> <<>>, items |-> x,    m |-> <<>>]
JObj(x) == [t |-> "obj", s |-> <<>>, items |-> <<>>, m |-> x]

NoValue   == [t |-> "none", s |-> <<>>, items |-> <<>>, m |-> <<>>]
ParseFail == [ok |-> FALSE, v |-> NoValue, next |-> 0]
ParseOk(v, next) == [ok |-> TRUE, v |-> v, next |-> next]

\* the character an escape sequence \c stands for, None when \c is invalid
Unescape(c) ==
    CASE c = Quote     -> Quote
      [] c = Backslash -> Backslash
      [] c = "n"       -> Newline
      [] OTHER         -> None

\* i is the index just after the opening quote; acc the characters read
RECURSIVE ParseString(_, _, _)
ParseString(s, i, acc) ==
    IF i > Len(s) THEN ParseFail
    ELSE IF s[i] = Quote THEN ParseOk(JStr(acc), i + 1)
    ELSE IF s[i] = Backslash THEN
        IF i + 1 > Len(s) \/ Unescape(s[i + 1]) = None THEN ParseFail
        ELSE ParseString(s, i + 2, Append(acc, Unescape(s[i + 1])))
    ELSE IF s[i] = Newline THEN ParseFail      \* control character, strict mode
    ELSE ParseString(s, i + 1, Append(acc, s[i]))

RECURSIVE ParseNumber(_, _, _)
ParseNumber(s, i, acc) ==
    IF i <= Len(s) /\ s[i] \in Digits
    THEN ParseNumber(s, i + 1, Append(acc, s[i]))
    ELSE ParseOk(JNum(acc), i)

RECURSIVE ParseValue(_, _)
RECURSIVE ParseElems(_, _, _)
RECURSIVE ParseMembers(_, _, _)

\* i is the index of the first character of the value
ParseValue(s, i) ==
    IF i > Len(s) THEN ParseFail
    ELSE IF s[i] = Quote THEN ParseString(s, i + 1, <<>>)
    ELSE IF s[i] \in Digits THEN ParseNumber(s, i, <<>>)
    ELSE IF s[i] = LBracket THEN
        LET j == SkipWs(s, i + 1)
        IN  IF j <= Len(s) /\ s[j] = RBracket THEN ParseOk(JArr(<<>>), j + 1)
            ELSE ParseElems(s, j, <<>>)
    ELSE IF s[i] = LBrace THEN
        LET j == SkipWs(s, i + 1)
        IN  IF j <= Len(s) /\ s[j] = RBrace THEN ParseOk(JObj(<<>>), j + 1)
            ELSE ParseMembers(s, j, <<>>)
    ELSE ParseFail

\* i is the index of the first character of an element
ParseElems(s, i, acc) ==
    LET r == ParseValue(s, i)
    IN  IF ~r.ok THEN ParseFail
        ELSE LET j == SkipWs(s, r.next)
             IN  IF j > Len(s) THEN ParseFail
                 ELSE IF s[j] = RBracket THEN ParseOk(JArr(Append(acc, r.v)), j + 1)
                 ELSE IF s[j] = Comma THEN ParseElems(s, SkipWs(s, j + 1), Append(acc, r.v))
                 ELSE ParseFail

\* i is the index of the opening quote of a key
ParseMembers(s, i, acc) ==
    IF i > Len(s) \/ s[i] # Quote THEN ParseFail
    ELSE
      LET k == ParseString(s, i + 1, <<>>)
      IN  IF ~k.ok THEN ParseFail
          ELSE
            LET c == SkipWs(s, k.next)
            IN  IF c > Len(s) \/ s[c] # Colon THEN ParseFail
                ELSE
                  LET r == ParseValue(s, SkipWs(s, c + 1))
                  IN  IF ~r.ok THEN ParseFail
                      ELSE
                        LET j  == SkipWs(s, r.next)
                            m2 == (k.v.s :> r.v) @@ acc
                        IN  IF j > Len(s) THEN ParseFail
                            ELSE IF s[j] = RBrace THEN ParseOk(JObj(m2), j + 1)
                            ELSE IF s[j] = Comma THEN ParseMembers(s, SkipWs(s, j + 1), m2)
                            ELSE ParseFail

\* json.loads(s): [ok |-> FALSE, ...] stands for json.JSONDecodeError
Loads(s) ==
    LET r == ParseValue(s, SkipWs(s, 1))
    IN  IF r.ok /\ SkipWs(s, r.next) = Len(s) + 1
        THEN [ok |-> TRUE, v |-> r.v]
        ELSE [ok |-> FALSE, v |-> NoValue]

(***************************************************************************)
(* _repair_json                                                            *)
(***************************************************************************)
\* one turn of the loop of _repair_json after its test of esc, without its
\* "if in_str: continue"
RepairStepInStrings(st, ch) ==
    IF ch = Backslash THEN [st EXCEPT !.esc = TRUE]
    ELSE IF ch = Quote THEN [st EXCEPT !.in_str = ~st.in_str]
    ELSE IF ch = LBrace THEN [st EXCEPT !.depth_brace = st.depth_brace + 1]
    ELSE IF ch = RBrace THEN [st EXCEPT !.depth_brace = st.depth_brace - 1]
    ELSE IF ch = LBracket THEN [st EXCEPT !.depth_bracket = st.depth_bracket + 1]
    ELSE IF ch = RBracket THEN [st EXCEPT !.depth_bracket = st.depth_bracket - 1]
    ELSE st

\* one turn of the loop of _repair_json, on character ch, after its test of
\* esc; a backslash sets esc inside and outside strings alike
RepairStep(st, ch) ==
    IF ch = Backslash THEN [st EXCEPT !.esc = TRUE]
    ELSE IF ch = Quote THEN [st EXCEPT !.in_str = ~st.in_str]
    ELSE IF st.in_str THEN st
    ELSE IF ch = LBrace THEN [st EXCEPT !.depth_brace = st.depth_brace + 1]
    ELSE IF ch = RBrace THEN [st EXCEPT !.depth_brace = st.depth_brace - 1]
    ELSE IF ch = LBracket THEN [st EXCEPT !.depth_bracket = st.depth_bracket + 1]
    ELSE IF ch = RBracket THEN [st EXCEPT !.depth_bracket = st.depth_bracket - 1]
    ELSE st

\* the scan of _repair_json without its "if in_str: continue"
RECURSIVE RepairScanInStrings(_, _, _)
RepairScanInStrings(s, i, st) ==
    IF i > Len(s) THEN st
    ELSE IF st.esc THEN RepairScanInStrings(s, i + 1, [st EXCEPT !.esc = FALSE])
    ELSE RepairScanInStrings(s, i + 1, RepairStepInStrings(st, s[i]))

\* the scan of _repair_json from index i on
RECURSIVE RepairScan(_, _, _)
RepairScan(s, i, st) ==
    IF i > Len(s) THEN st
    ELSE IF st.esc THEN RepairScan(s, i + 1, [st EXCEPT !.esc = FALSE])
    ELSE RepairScan(s, i + 1, RepairStep(st, s[i]))

\* s += '"' when the scan ended inside a string
CloseString(s, in_str) == IF in_str THEN Append(s, Quote) ELSE s

\* re.sub(r",\s*$", "", s.rstrip())
StripTrailingComma(s) ==
    LET r == RStrip(s)
    IN  IF r # <<>> /\ r[Len(r)] = Comma THEN SubSeq(r, 1, Len(r) - 1) ELSE r

\* s += "]" * max(0, depth_bracket); s += "}" * max(0, depth_brace)
CloseBrackets(s, depth_bracket, depth_brace) ==
    s \o Repeat(RBracket, Max(0, depth_bracket)) \o Repeat(RBrace, Max(0, depth_brace))

_repair_json(s) ==
    LET st == RepairScan(s, 1, [depth_brace |-> 0, depth_bracket |-> 0,
                                in_str |-> FALSE, esc |-> FALSE])
    IN  CloseBrackets(StripTrailingComma(CloseString(s, st.in_str)),
                      st.depth_bracket, st.depth_brace)

(***************************************************************************)
(* _ej                                                                     *)
(***************************************************************************)
Raised(e)   == [ok |-> FALSE, err |-> e,    v |-> NoValue]
Returned(v) == [ok |-> TRUE,  err |-> None, v |-> v]

\* text.replace of the two smart double quotes by the plain quote (the two
\* smart single quotes are outside the alphabet)
ReplaceSmartQuotes(s) ==
    [i \in 1..Len(s) |-> IF s[i] \in {SmartL, SmartR} THEN Quote ELSE s[i]]

\* s[i : i + 3] == "```"
IsFenceAt(s, i) ==
    i + 2 <= Len(s) /\ s[i] = Backtick /\ s[i + 1] = Backtick /\ s[i + 2] = Backtick

\* the first index at or after `from' where "```" starts, 0 when there is none
RECURSIVE FindFence(_, _)
FindFence(s, from) ==
    IF from + 2 > Len(s) THEN 0
    ELSE IF IsFenceAt(s, from) THEN from
    ELSE FindFence(s, from + 1)

\* s[i : i + 4] == "json"
IsJsonTagAt(s, i) ==
    i + 3 <= Len(s) /\ SubSeq(s, i, i + 3) = <<"j", "s", "o", "n">>

\* re.search(r"```(?:json)?\s*([\s\S]*?)```", text): the span of group 1, or
\* no match.  The leftmost "```" opens the fence; the tag and the whitespace
\* are taken greedily, the content lazily up to the next "```".
FenceMatch(s) ==
    LET open == FindFence(s, 1)
        tag  == IF IsJsonTagAt(s, open + 3) THEN open + 7 ELSE open + 3
        g    == SkipWs(s, tag)
        shut == FindFence(s, g)
    IN  IF open = 0 \/ shut = 0
        THEN [matched |-> FALSE, group |-> <<>>]
        ELSE [matched |-> TRUE,  group |-> Slice(s, g, shut - 1)]

\* json.loads with a fallback that gives the empty object when the repaired
\* text does not parse either
LoadsOrEmptyObject(c) ==
    LET first  == Loads(c)
        second == Loads(_repair_json(c))
    IN  IF first.ok THEN Returned(first.v)
        ELSE IF second.ok THEN Returned(second.v)
        ELSE Returned(JObj(<<>>))

\* try: json.loads(c)  except: json.loads(_repair_json(c))
LoadsOrRepair(c) ==
    LET first  == Loads(c)
        second == Loads(_repair_json(c))
    IN  IF first.ok THEN Returned(first.v)
        ELSE IF second.ok THEN Returned(second.v)
        ELSE Raised("JSONDecodeError")

\* one turn of the loop of _ej, on character ch, after its test of esc
EjStep(st, ch, oc, cc) ==
    IF ch = Backslash /\ st.in_str THEN [st EXCEPT !.esc = TRUE]
    ELSE IF ch = Quote THEN [st EXCEPT !.in_str = ~st.in_str]
    ELSE IF st.in_str THEN st
    ELSE IF ch = oc THEN [st EXCEPT !.depth = st.depth + 1]
    ELSE IF ch = cc THEN [st EXCEPT !.depth = st.depth - 1]
    ELSE st

\* the turn on character ch is the one that brings depth back to zero
EjCloses(st, ch, oc, cc) ==
    /\ ~st.esc
    /\ ~st.in_str
    /\ ch \notin {Backslash, Quote, oc}
    /\ ch = cc
    /\ st.depth - 1 = 0

\* the scan of _ej from index i on: the index where depth returns to zero,
\* 0 when it never does
RECURSIVE EjScan(_, _, _, _, _)
EjScan(s, i, oc, cc, st) ==
    IF i > Len(s) THEN 0
    ELSE IF EjCloses(st, s[i], oc, cc) THEN i
    ELSE IF st.esc THEN EjScan(s, i + 1, oc, cc, [st EXCEPT !.esc = FALSE])
    ELSE EjScan(s, i + 1, oc, cc, EjStep(st, s[i], oc, cc))

\* which of "{" and "[" opens the top-level value: the index and the pair
PickStart(s_obj, s_arr) ==
    IF s_arr = 0 \/ (s_obj # 0 /\ s_obj < s_arr)
    THEN [start |-> s_obj, oc |-> LBrace,   cc |-> RBrace]
    ELSE [start |-> s_arr, oc |-> LBracket, cc |-> RBracket]

_ej(txt) ==
    IF txt = <<>> \/ Strip(txt) = <<>> THEN Raised("ValueError")
    ELSE
      LET t1    == ReplaceSmartQuotes(txt)
          fence == FenceMatch(t1)
          t2    == IF fence.matched THEN Strip(fence.group) ELSE t1
          s_obj == Find(t2, LBrace)
          s_arr == Find(t2, LBracket)
      IN  IF s_obj = 0 /\ s_arr = 0 THEN Raised("ValueError")
          ELSE
            LET p   == PickStart(s_obj, s_arr)
                end == EjScan(t2, p.start, p.oc, p.cc,
                              [depth |-> 0, in_str |-> FALSE, esc |-> FALSE])
            IN  IF end # 0 THEN LoadsOrRepair(Slice(t2, p.start, end))
                ELSE LoadsOrRepair(Slice(t2, p.start, Len(t2)))

(***************************************************************************)
(* Inputs of the Text Repair Engine                                        *)
(***************************************************************************)
MaxLen   == 4      \* longest text enumerated character by character
MaxProse == 1      \* longest prose before and after the JSON text
MaxElems == 2      \* most complete elements before a truncation point

\* every text of at most n characters over the alphabet A
TextsOver(A, n) == UNION {[1..k -> A] : k \in 0..n}

PlainChars == {LBrace, RBrace, LBracket, RBracket, Quote, Comma, Colon, "1", Space}
ProseChars == {"a", Space, Quote, LBrace, LBracket}

\* the string literal with the raw characters x between its quotes
Lit(x) == <<Quote>> \o x \o <<Quote>>

KeyA    == Lit(<<"a">>)
KeyN    == Lit(<<"n">>)
Score   == Lit(<<"s", "c", "o", "r", "e">>)
Missed  == <<"w", "h", "a", "t", "_", "m", "i", "s", "s", "e", "d">>

\* syntactically complete JSON texts
JsonObjects ==
    { <<LBrace>> \o KeyA \o <<Colon, "1", RBrace>>,                       \* {"a":1}
      <<LBrace>> \o KeyA \o <<Colon, LBracket, "1", Comma>> \o KeyA
                 \o <<RBracket, RBrace>>,                                 \* {"a":[1,"a"]}   
      <<LBrace>> \o KeyA \o <<Colon, LBrace>> \o KeyN
                 \o <<Colon, "1", RBrace, RBrace>>,                       \* {"a":{"n":1}}
      <<LBrace>> \o KeyA \o <<Colon, LBracket, LBrace>> \o KeyN
                 \o <<Colon, "1", RBrace, RBracket, RBrace>>,             \* {"a":[{"n":1}]}
      <<LBrace>> \o KeyA \o <<Colon, "1", Comma, Space>> \o KeyN
                 \o <<Colon>> \o Lit(<<LBracket, "a">>) \o <<RBrace>>,    \* {"a":1, "n":"[a"}
      <<LBrace>> \o KeyA \o <<Colon>>
                 \o Lit(<<"a", Backslash, Quote, "a">>) \o <<RBrace>>,    \* {"a":"a\"a"}
      <<LBrace>> \o KeyA \o <<Colon>>
                 \o Lit(<<SmartL, "a", SmartR>>) \o <<RBrace>> }          \* smart quotes in a string

JsonArrays ==
    { <<LBracket, "1", Comma, "2", RBracket>>,                            \* [1,2]
      <<LBracket>> \o Lit(<<LBrace>>) \o <<RBracket>> }                   \* ["{"]

JsonTexts == JsonObjects \cup JsonArrays

\* a JSON text inside prose, optionally in a fenced code block
FenceKinds == {"none", "bare", "json"}
FenceOpen(f) ==
    CASE f = "none" -> <<>>
      [] f = "bare" -> <<Backtick, Backtick, Backtick>>
      [] f = "json" -> <<Backtick, Backtick, Backtick, "j", "s", "o", "n", Newline>>
FenceShut(f) == IF f = "none" THEN <<>> ELSE <<Newline, Backtick, Backtick, Backtick>>

Wrap(before, f, inner, after) == before \o FenceOpen(f) \o inner \o FenceShut(f) \o after

\* what kind of damage cutting the JSON text j after its first p characters is
DamageKind(j, p) ==
    LET st == RepairScan(SubSeq(j, 1, p), 1, [depth_brace |-> 0, depth_bracket |-> 0,
                                              in_str |-> FALSE, esc |-> FALSE])
    IN  IF st.in_str THEN "dangling"
        ELSE IF j[p] = Comma THEN "comma"
        ELSE IF \A i \in (p + 1)..Len(j) : j[i] \in {RBrace, RBracket} THEN "closers"
        ELSE "other"

\* a grading response in an unclosed json fence, cut inside its what_missed array
ElemTexts ==
    { Lit(<<"a">>), Lit(<<"a", Comma>>), Lit(<<LBracket, "a">>),
      Lit(<<"a", Backslash, Quote, "a">>) }

GradeHead ==
    <<Backtick, Backtick, Backtick, "j", "s", "o", "n", Newline, LBrace>>
    \o Score \o <<Colon, Space, "1", "2", Comma, Space>>
    \o Lit(Missed) \o <<Colon, Space, LBracket>>

RECURSIVE JoinElems(_)
JoinElems(es) ==
    IF es = <<>> THEN <<>>
    ELSE IF Len(es) = 1 THEN es[1]
    ELSE es[1] \o <<Comma, Space>> \o JoinElems(Tail(es))

\* the nonempty proper prefixes of the element texts
PartialElems == UNION {{SubSeq(e, 1, k) : k \in 1..(Len(e) - 1)} : e \in ElemTexts}

\* what may follow the complete elements es at the truncation point
Tails(es) ==
    IF es = <<>> THEN {<<>>} \cup PartialElems
    ELSE {<<>>, <<Comma>>, <<Comma, Newline>>} \cup {<<Comma, Space>> \o q : q \in PartialElems}

NoSrc == [kind |-> "none", inner |-> <<>>, elems |-> <<>>]

\* the inputs, with plain texts of at most len characters and prose of at most
\* prose characters on each side of a wrapped JSON text
JsonInputs(len, prose) ==
    {[text |-> t, src |-> [kind |-> "plain", inner |-> t, elems |-> <<>>]] :
        t \in TextsOver(PlainChars, len) \cup JsonTexts
              \cup {j \o <<w>> : j \in JsonTexts, w \in Whitespace}}
    \cup
    {[text |-> Wrap(b, f, j, a), src |-> [kind |-> "wrapped", inner |-> j, elems |-> <<>>]] :
        b \in TextsOver(ProseChars, prose), f \in FenceKinds,
        j \in JsonTexts, a \in TextsOver(ProseChars, prose)}
    \cup
    UNION {{[text |-> SubSeq(j, 1, p),
             src  |-> [kind |-> DamageKind(j, p), inner |-> j, elems |-> <<>>]] :
               p \in 1..(Len(j) - 1)} : j \in JsonObjects}
    \cup
    UNION {{[text |-> GradeHead \o JoinElems(es) \o tl,
             src  |-> [kind |-> "what_missed", inner |-> <<>>, elems |-> es]] :
               tl \in Tails(es)} : es \in TextsOver(ElemTexts, MaxElems)}

(***************************************************************************)
(* The Text Repair Engine applied to one input                             *)
(***************************************************************************)
\* json_out holds the result of _ej and the text returned by _repair_json
NoOut == [ej |-> Raised(None), repaired |-> <<>>]

Apply_ej ==
    /\ json_op = "none"
    /\ json_op' = "_ej"
    /\ json_out' = [NoOut EXCEPT !.ej = _ej(text)]
    /\ UNCHANGED <<text, json_src>>

Apply_repair_json ==
    /\ json_op = "none"
    /\ json_op' = "_repair_json"
    /\ json_out' = [NoOut EXCEPT !.repaired = _repair_json(text)]
    /\ UNCHANGED <<text, json_src>>

(***************************************************************************)
(* Retry Controller (_call_with_retry) and the structured tasks            *)
(***************************************************************************)
MaxTemperature == 30     \* highest temperature of a direct call, in hundredths
MaxRetries     == 3      \* highest attempt ceiling of a direct call

DefaultRetries == 3      \* retries=3
MinTemperature == 10     \* max(0.1, ...)
Decrement      == 5      \* 0.05 * (attempt-1)

\* the four tasks that parse the backend's text, with the temperature each passes
Tasks == {"build_session_plan", "build_field_plan", "grade_answer", "build_session_report"}
TaskTemperature(t) ==
    CASE t = "build_session_plan"   -> 50
      [] t = "build_field_plan"     -> 60
      [] t = "grade_answer"         -> 72
      [] t = "build_session_report" -> 65

\* what call_llm can raise, by the spec's taxonomy of backend failures
ErrorKinds == {"AuthenticationError", "ConnectionError", "BackendError"}

\* what call_llm can return: valid JSON, truncated but repairable JSON,
\* truncated beyond repair, prose without JSON, nothing
Responses ==
    { <<LBrace>> \o KeyA \o <<Colon, "1", RBrace>>,
      <<LBrace>> \o KeyA \o <<Colon, LBracket, "1", Comma>>,
      <<LBrace>> \o KeyA \o <<Colon>>,
      <<"a">>,
      <<>> }

\* the prompt is a sequence of parts; n numbers the attempt of an instruction
Prompt == <<[part |-> "prompt", n |-> 0]>>

\* a prompt that keeps the instruction of every earlier attempt
RetryPromptAccumulating(prompt, k) ==
    prompt \o [i \in 1..(k - 1) |-> [part |-> "json_only", n |-> i + 1]]

\* p = prompt if attempt == 1 else prompt + "[Attempt {attempt}: output ONLY valid JSON ...]"
RetryPrompt(prompt, k) ==
    IF k = 1 THEN prompt ELSE Append(prompt, [part |-> "json_only", n |-> k])

RetryTemperatureFlat(t, k) == Max(MinTemperature, t)

\* temperature=max(0.1, temperature - 0.05 * (attempt-1))
RetryTemperature(t, k) == Max(MinTemperature, t - Decrement * (k - 1))

HasNextAttemptOffByOne(k, n) == k <= n

\* for attempt in range(1, retries + 1): is there an attempt after attempt k
HasNextAttempt(k, n) == k < n

\* the exception object raised by the backend call of attempt k
Error(kind, k) == [kind |-> kind, at |-> k]
NoError == Error(None, 0)

\* task_out holds the error the task raised, or the value or text it returned
NoTaskOut == [err |-> NoError, v |-> NoValue, text |-> <<>>]

\* one of the tasks, or a direct caller of _call_with_retry, enters the loop
StartTask ==
    /\ task_pc = "idle"
    /\ \/ \E t \in Tasks :
             /\ task' = t
             /\ temperature' = TaskTemperature(t)
             /\ retries' = DefaultRetries
       \/ /\ task' = "_call_with_retry"
          /\ temperature' \in 0..MaxTemperature
          /\ retries' \in 1..MaxRetries
    /\ attempt' = 1
    /\ task_pc' = "calling"
    /\ UNCHANGED <<last_err, calls, raw, task_out>>

\* the invocation of call_llm made by attempt k
Call(k, outcome, response) ==
    [prompt      |-> RetryPrompt(Prompt, k),
     temperature |-> RetryTemperature(temperature, k),
     outcome     |-> outcome,
     response    |-> response]

\* call_llm raises: except Exception as e: last_err = e; then the next
\* attempt after the sleep, or raise last_err after the loop
call_llm_raises ==
    /\ task_pc = "calling"
    /\ \E kind \in ErrorKinds :
          /\ calls' = Append(calls, Call(attempt, kind, <<>>))
          /\ last_err' = Error(kind, attempt)
    /\ IF HasNextAttempt(attempt, retries)
       THEN /\ attempt' = attempt + 1
            /\ UNCHANGED <<task_pc, task_out>>
       ELSE /\ task_pc' = "raised"
            /\ task_out' = [NoTaskOut EXCEPT !.err = last_err']
            /\ UNCHANGED attempt
    /\ UNCHANGED <<task, temperature, retries, raw>>

\* what a task does with the text raw that _call_with_retry returned on
\* attempt k: return _ej(raw), whose error propagates to the task's caller;
\* a direct caller gets the text itself
TaskOutcome(t, r, k) ==
    IF t \in Tasks
    THEN IF _ej(r).ok
         THEN [pc |-> "returned", out |-> [NoTaskOut EXCEPT !.v = _ej(r).v]]
         ELSE [pc |-> "raised",   out |-> [NoTaskOut EXCEPT !.err = Error(_ej(r).err, k)]]
    ELSE [pc |-> "returned", out |-> [NoTaskOut EXCEPT !.text = r]]

\* call_llm returns: _call_with_retry returns the text to the task
call_llm_returns ==
    /\ task_pc = "calling"
    /\ \E r \in Responses :
          /\ calls' = Append(calls, Call(attempt, "ok", r))
          /\ raw' = r
          /\ task_pc' = TaskOutcome(task, r, attempt).pc
          /\ task_out' = TaskOutcome(task, r, attempt).out
    /\ UNCHANGED <<task, temperature, retries, attempt, last_err>>

(***************************************************************************)
(* Session host: the connection state, the pages and their buttons         *)
(***************************************************************************)
MaxQuestions == 2     \* most questions in a plan the backend returns

\* prov_labels, in the order of the selectbox
Providers == {"groq", "ollama", "openai", "anthropic", "openrouter"}

\* PROVIDER_MODELS, and for ollama what get_ollama_models can return
ModelsOf(p) ==
    CASE p = "groq"       -> {"llama-3.3-70b-versatile", "llama-3.1-8b-instant",
                              "mixtral-8x7b-32768"}
      [] p = "openai"     -> {"gpt-4o-mini", "gpt-4o", "gpt-3.5-turbo"}
      [] p = "anthropic"  -> {"claude-3-haiku-20240307", "claude-3-5-sonnet-20241022"}
      [] p = "openrouter" -> {"meta-llama/llama-3.3-70b-instruct",
                              "mistralai/mistral-7b-instruct", "openai/gpt-4o-mini"}
      [] p = "ollama"     -> {"llama3.2", "llama3.1", "mistral", "phi3", "phi3.5"}

\* what the user can type into the key field
KeyInputs == {<<>>, <<Space>>, <<"k">>, <<"k", Space>>, <<"j">>}

Pages == {"home", "setup", "session", "report", "chat"}

\* the category sequence the plan prompts ask for, ids 1..10
RequestedCategories ==
    <<"Opener", "Behavioral", "Behavioral", "Technical", "Technical", "Situational",
      "Leadership", "Culture Fit", "Gap Challenge", "Closing">>

\* A plan is what _ej made of the backend's text: bool(plan), whether it has
\* a question_pool, and the id and category of each record of the pool.
Question(id, cat) == [id |-> id, category |-> cat]
NoPlan == [active |-> FALSE, has_pool |-> FALSE, total_q |-> 0, pool |-> <<>>]
Plan(has_pool, pool) ==
    [active |-> TRUE, has_pool |-> has_pool, total_q |-> Len(pool), pool |-> pool]

\* the first n records as requested, or n records that all carry id 1
PoolAsRequested(n) == [i \in 1..n |-> Question(i, RequestedCategories[i])]
PoolSameId(n)      == [i \in 1..n |-> Question(1, "Behavioral")]

\* the plans build_session_plan and build_field_plan can return: {} , an
\* object without question_pool, and objects with a pool of 0..MaxQuestions
\* records
ReturnedPlans ==
    {NoPlan, Plan(FALSE, <<>>)}
    \cup {Plan(TRUE, PoolAsRequested(n)) : n \in 0..MaxQuestions}
    \cup {Plan(TRUE, PoolSameId(n)) : n \in 1..MaxQuestions}
NoCall    == [fn |-> None, api_key |-> <<>>, provider |-> None, model |-> None,
              connected |-> FALSE, sel_prov |-> None]

\* fn(_api(), _prov(), _model(), ...) as the latest UI event makes it
Issue(fn) == [fn |-> fn, api_key |-> api_key, provider |-> provider, model |-> model,
              connected |-> connected, sel_prov |-> sel_prov]

_ready == connected

\* ---- sidebar ----

\* the user picks another provider in the selectbox; the script reruns
SelectProvider ==
    /\ \E p \in Providers \ {sel_prov} : sel_prov' = p
    /\ issued' = NoCall
    /\ UNCHANGED <<varsConn, page, varsSess>>

\* the stored connection, and whether verify_connection was called
Connection(verified, key, prov, mod, conn) ==
    [verified |-> verified, api_key |-> key, provider |-> prov, model |-> mod,
     connected |-> conn]

\* a Connect button that verifies whatever the key field holds
ConnectButtonVerifiesBlank(key_in, model_val, ok) ==
    IF ok
    THEN Connection(TRUE, Strip(key_in), sel_prov, model_val, TRUE)
    ELSE Connection(TRUE, api_key, provider, model, FALSE)

\* the block of the Connect button with key_in in the key field, when
\* verify_connection answers ok or not: what it leaves in session_state
ConnectButton(key_in, model_val, ok) ==
    IF Strip(key_in) # <<>> \/ sel_prov = "ollama"
    THEN IF ok
         THEN Connection(TRUE, Strip(key_in), sel_prov, model_val, TRUE)
         ELSE Connection(TRUE, api_key, provider, model, FALSE)
    ELSE Connection(FALSE, api_key, provider, model, connected)

\* what the Connect button can leave behind in the current state
ConnectOutcomes ==
    {ConnectButton(key_in, model_val, ok) :
        key_in \in KeyInputs, model_val \in ModelsOf(sel_prov), ok \in BOOLEAN}

\* the Connect button: verify_connection answers ok or not
Connect ==
    /\ \E after \in ConnectOutcomes :
          /\ api_key' = after.api_key
          /\ provider' = after.provider
          /\ model' = after.model
          /\ connected' = after.connected
    /\ issued' = NoCall
    /\ UNCHANGED <<sel_prov, page, varsSess>>

\* _go(page)
_go(p) == page' = p

\* a navigation button of the sidebar
Navigate ==
    /\ \E p \in Pages : _go(p)
    /\ issued' = NoCall
    /\ UNCHANGED <<varsConn, sel_prov, varsSess>>

\* ---- page_home ----
HomeStartSession ==
    /\ page = "home"
    /\ _go("setup")
    /\ issued' = NoCall
    /\ UNCHANGED <<varsConn, sel_prov, varsSess>>

\* ---- page_setup ----

\* _launch_session(plan)
_launch_session(plan) ==
    /\ session_plan' = plan
    /\ current_q_idx' = 0
    /\ session_data' = <<>>
    /\ last_grade' = None
    /\ show_tip' = FALSE
    /\ followup_mode' = FALSE
    /\ session_report' = None
    /\ _go("session")

\* Start Full Session / Start Quick Session: build_session_plan or
\* build_field_plan returns a plan, or raises and the page shows the error
StartSession(fn) ==
    /\ page = "setup"
    /\ _ready
    /\ issued' = Issue(fn)
    /\ \/ \E plan \in ReturnedPlans : _launch_session(plan)
       \/ UNCHANGED <<page, varsSess>>
    /\ UNCHANGED <<varsConn, sel_prov>>

StartFullSession  == StartSession("build_session_plan")
StartQuickSession == StartSession("build_field_plan")

\* ---- page_session ----
total_q == session_plan.total_q

OnSession      == page = "session" /\ session_plan.active
CompleteViewAtAnyQuestion == OnSession
CompleteView   == OnSession /\ current_q_idx >= total_q
FollowupView   == OnSession /\ current_q_idx < total_q /\ followup_mode
GradeView      == OnSession /\ current_q_idx < total_q /\ ~followup_mode
                            /\ last_grade # None
QuestionViewPastTheEnd == OnSession /\ ~followup_mode /\ last_grade = None
QuestionView   == OnSession /\ current_q_idx < total_q /\ ~followup_mode
                            /\ last_grade = None

\* "Go to Setup", shown by page_session without a plan and by page_report
\* without session data
GoToSetup ==
    /\ \/ page = "session" /\ ~session_plan.active
       \/ page = "report" /\ session_data = <<>>
    /\ _go("setup")
    /\ issued' = NoCall
    /\ UNCHANGED <<varsConn, sel_prov, varsSess>>

\* Generate My Full Report, on the completed session
GenerateReport ==
    /\ CompleteView
    /\ issued' = Issue("build_session_report")
    /\ \/ /\ session_report' = "report"
          /\ _go("report")
       \/ UNCHANGED <<session_report, page>>
    /\ UNCHANGED <<varsConn, sel_prov, session_plan, current_q_idx, session_data,
                   last_grade, show_tip, followup_mode>>

\* New Session, on the completed session and under the question
NewSession ==
    /\ CompleteView \/ QuestionView
    /\ session_plan' = NoPlan
    /\ session_data' = <<>>
    /\ current_q_idx' = 0
    /\ _go("setup")
    /\ issued' = NoCall
    /\ UNCHANGED <<varsConn, sel_prov, last_grade, show_tip, followup_mode,
                   session_report>>

\* Continue, in follow-up coaching: coach_followup replies or raises
FollowupContinue ==
    /\ FollowupView
    /\ issued' = Issue("coach_followup")
    /\ UNCHANGED <<varsConn, sel_prov, page, varsSess>>

\* Next Q, in follow-up coaching
FollowupNext ==
    /\ FollowupView
    /\ followup_mode' = FALSE
    /\ current_q_idx' = current_q_idx + 1
    /\ last_grade' = None
    /\ show_tip' = FALSE
    /\ issued' = NoCall
    /\ UNCHANGED <<varsConn, sel_prov, page, session_plan, session_data, session_report>>

\* Discuss with Alex, under the grade
Discuss ==
    /\ GradeView
    /\ followup_mode' = TRUE
    /\ issued' = NoCall
    /\ UNCHANGED <<varsConn, sel_prov, page, session_plan, current_q_idx, session_data,
                   last_grade, show_tip, session_report>>

\* a Next Question button that clears the grade and stays on the question
NextQuestionSameIndex ==
    /\ GradeView
    /\ last_grade' = None
    /\ show_tip' = FALSE
    /\ issued' = NoCall
    /\ UNCHANGED <<varsConn, sel_prov, page, session_plan, current_q_idx, session_data,
                   followup_mode, session_report>>

\* Next Question, under the grade
NextQuestion ==
    /\ GradeView
    /\ last_grade' = None
    /\ show_tip' = FALSE
    /\ current_q_idx' = current_q_idx + 1
    /\ issued' = NoCall
    /\ UNCHANGED <<varsConn, sel_prov, page, session_plan, session_data, followup_mode,
                   session_report>>

\* Finish & Get Report, under the grade of the last question
Finish ==
    /\ GradeView
    /\ current_q_idx + 1 >= total_q
    /\ last_grade' = None
    /\ current_q_idx' = total_q
    /\ issued' = NoCall
    /\ UNCHANGED <<varsConn, sel_prov, page, session_plan, session_data, show_tip,
                   followup_mode, session_report>>

\* Get a Hint: get_question_tip returns a tip or raises
GetHint ==
    /\ QuestionView
    /\ ~show_tip
    /\ issued' = Issue("get_question_tip")
    /\ \/ show_tip' = TRUE
       \/ UNCHANGED show_tip
    /\ UNCHANGED <<varsConn, sel_prov, page, session_plan, current_q_idx, session_data,
                   last_grade, followup_mode, session_report>>

\* a Submit Answer that appends the entry before grade_answer is called
SubmitAnswerAppendsFirst ==
    /\ QuestionView
    /\ issued' = Issue("grade_answer")
    /\ session_data' = Append(session_data, [q |-> current_q_idx])
    /\ \/ /\ last_grade' = "grade"
          /\ show_tip' = FALSE
       \/ UNCHANGED <<last_grade, show_tip>>
    /\ UNCHANGED <<varsConn, sel_prov, page, session_plan, current_q_idx, followup_mode,
                   session_report>>

\* Submit Answer: grade_answer returns a grade, which is appended to the
\* session data, or raises and the page shows the error
SubmitAnswer ==
    /\ QuestionView
    /\ issued' = Issue("grade_answer")
    /\ \/ /\ session_data' = Append(session_data, [q |-> current_q_idx])
          /\ last_grade' = "grade"
          /\ show_tip' = FALSE
       \/ UNCHANGED <<session_data, last_grade, show_tip>>
    /\ UNCHANGED <<varsConn, sel_prov, page, session_plan, current_q_idx, followup_mode,
                   session_report>>

\* Skip
Skip ==
    /\ QuestionView
    /\ current_q_idx' = current_q_idx + 1
    /\ last_grade' = None
    /\ show_tip' = FALSE
    /\ issued' = NoCall
    /\ UNCHANGED <<varsConn, sel_prov, page, session_plan, session_data, followup_mode,
                   session_report>>

\* ---- page_report ----

\* Generate Full Report, on the report page with session data and no report
GenerateReportOnPage ==
    /\ page = "report"
    /\ session_data # <<>>
    /\ session_report = None
    /\ issued' = Issue("build_session_report")
    /\ \/ session_report' = "report"
       \/ UNCHANGED session_report
    /\ UNCHANGED <<varsConn, sel_prov, page, session_plan, current_q_idx, session_data,
                   last_grade, show_tip, followup_mode>>

\* ---- page_chat ----

\* Send, or a quick starter: free_chat replies or raises
FreeChatSend ==
    /\ page = "chat"
    /\ _ready
    /\ issued' = Issue("free_chat")
    /\ UNCHANGED <<varsConn, sel_prov, page, varsSess>>

(***************************************************************************)
(* grade_answer: normalisation of the parsed grading response              *)
(***************************************************************************)
MaxEntries == 4       \* most entries of a scores dict in a response

\* A dict of scores is a sequence of entries [k, v] with distinct keys, in
\* insertion order.  A field of the response is absent, a dict, or a list.
Entry(k, v) == [k |-> k, v |-> v]
Absent      == [has |-> FALSE, kind |-> None,   d |-> <<>>, l |-> <<>>]
Dict(d)     == [has |-> TRUE,  kind |-> "dict", d |-> d,    l |-> <<>>]
List(l)     == [has |-> TRUE,  kind |-> "list", d |-> <<>>, l |-> l]

StarKeys    == <<"situation", "task", "action", "result">>
OpenerKeys  == <<"narrative_arc", "relevant_experience", "motivation_fit",
                 "delivery_confidence">>
ClosingKeys == <<"role_relevance", "company_research", "strategic_thinking",
                 "interview_intelligence">>
StarLabels    == <<"Situation", "Task", "Action", "Result">>
OpenerLabels  == <<"Narrative Arc", "Relevant Experience", "Motivation & Fit",
                   "Delivery & Confidence">>
ClosingLabels == <<"Role Relevance", "Company Research", "Strategic Thinking",
                   "Interview Intelligence">>
DefaultScore  == 15

\* str.lower on the categories below
Lower(c) ==
    CASE c = "Opener"     -> "opener"
      [] c = "OPENER"     -> "opener"
      [] c = "Closing"    -> "closing"
      [] c = "Behavioral" -> "behavioral"
      [] c = "Opener "    -> "opener "
      [] c = "Custom"     -> "custom"
      [] OTHER            -> c

_category_type_as_spelled(c) ==
    IF c = "Opener" THEN "opener"
    ELSE IF c = "Closing" THEN "closing"
    ELSE "star"

_category_type(c) ==
    IF Lower(c) = "opener" THEN "opener"
    ELSE IF Lower(c) = "closing" THEN "closing"
    ELSE "star"

\* dict.keys(), dict.values(), dict.get(key, default), key in dict
Keys(d)   == [i \in 1..Len(d) |-> d[i].k]
Values(d) == [i \in 1..Len(d) |-> d[i].v]
HasKey(d, key) == \E i \in 1..Len(d) : d[i].k = key
Get(d, key, default) ==
    IF HasKey(d, key) THEN d[CHOOSE i \in 1..Len(d) : d[i].k = key].v ELSE default

\* bool(x) of a dict or a list
Truthy(f) == IF f.kind = "dict" THEN f.d # <<>> ELSE f.l # <<>>

Result(rs, rl, ss, mab) ==
    [rubric_scores |-> rs, rubric_labels |-> rl, star_scores |-> ss,
     model_answer_breakdown |-> mab]
NoResult == Result(Absent, Absent, Absent, FALSE)

GradeRaised(e)   == [ok |-> FALSE, err |-> e,    result |-> NoResult]
GradeReturned(r) == [ok |-> TRUE,  err |-> None, result |-> r]
NoGrade          == GradeRaised(None)

\* {new_key: ss.get(star_key, 15), ...} for the opener and closing rubrics
Migrated(keys, ss) ==
    [i \in 1..4 |-> Entry(keys[i], Get(ss, StarKeys[i], DefaultScore))]

DefaultStar == [i \in 1..4 |-> Entry(StarKeys[i], DefaultScore)]

\* the block under `if "rubric_scores" not in result`; ss is the popped
\* star_scores, {} when the response has none
Migrate(r, ctype) ==
    LET ss == IF r.star_scores.has THEN r.star_scores ELSE Dict(<<>>)
    IN  IF ctype \in {"opener", "closing"}
        THEN IF ss.kind # "dict" THEN GradeRaised("AttributeError")
             ELSE GradeReturned(Result(
                      Dict(Migrated(IF ctype = "opener" THEN OpenerKeys
                                    ELSE ClosingKeys, ss.d)),
                      List(IF ctype = "opener" THEN OpenerLabels ELSE ClosingLabels),
                      Absent, r.model_answer_breakdown))
        ELSE GradeReturned(Result(
                 IF Truthy(ss) THEN ss ELSE Dict(DefaultStar),
                 List(StarLabels), Absent, r.model_answer_breakdown))

\* star_scores rebuilt from the values of rubric_scores, by position
StarFromRubric(scores) ==
    [i \in 1..4 |-> Entry(StarKeys[i],
                          IF i <= Len(scores) THEN scores[i] ELSE DefaultScore)]

\* result.setdefault("rubric_labels", list(rubric_scores.keys()))
LabelsDefaulted(r) ==
    IF r.rubric_labels.has THEN r.rubric_labels
    ELSE List(Keys(r.rubric_scores.d))

\* lines 610-646 on the dict result
Normalise(result, ctype) ==
    LET m == IF result.rubric_scores.has THEN GradeReturned(result)
             ELSE Migrate(result, ctype)
    IN  IF ~m.ok THEN m
        \* the default of setdefault is evaluated whether or not it is used
        ELSE IF m.result.rubric_scores.kind # "dict" THEN GradeRaised("AttributeError")
        ELSE LET r1 == [m.result EXCEPT !.rubric_labels = LabelsDefaulted(m.result),
                                        !.model_answer_breakdown = TRUE]
             IN  GradeReturned(
                   IF r1.star_scores.has THEN r1
                   ELSE [r1 EXCEPT !.star_scores =
                            Dict(StarFromRubric(Values(r1.rubric_scores.d)))])

\* ---- inputs ----
Categories == {"Opener", "OPENER", "Closing", "closing", "Behavioral", "Opener ",
               "Custom", ""}
Extra      == <<"extra", "bonus">>
KeySchemes == {StarKeys \o Extra, OpenerKeys \o Extra, ClosingKeys \o Extra}
ScorePatterns == {<<5, 10, 15, 20, 25, 0>>, <<30, -1, 15, 20, 25, 0>>}
Reverse(q) == [i \in 1..Len(q) |-> q[Len(q) + 1 - i]]

\* the first n keys of a scheme with the first n scores of a pattern
ScoresDict(keys, pat, n, rev) ==
    LET d == [i \in 1..Min(n, Len(keys)) |-> Entry(keys[i], pat[i])]
    IN  IF rev THEN Reverse(d) ELSE d

RubricFields ==
    {Absent, List(<<>>), List(<<"x">>)}
    \cup {Dict(ScoresDict(ks, pat, n, rev)) :
            ks \in KeySchemes, pat \in ScorePatterns, n \in 0..MaxEntries,
            rev \in BOOLEAN}
StarFields ==
    {Absent, List(<<>>), List(<<"x">>)}
    \cup {Dict(ScoresDict(StarKeys \o Extra, pat, n, FALSE)) :
            pat \in ScorePatterns, n \in 0..MaxEntries}
LabelFields ==
    {Absent, List(<<>>), List(<<"x">>), List(StarLabels), List(OpenerLabels)}

ParsedDicts ==
    {Result(rs, rl, ss, mab) :
        rs \in RubricFields, rl \in LabelFields, ss \in StarFields, mab \in BOOLEAN}

\* what _call_with_retry and _ej hand to the normalisation
ParsedInputs ==
    {[kind |-> "dict", result |-> r] : r \in ParsedDicts}
    \cup {[kind |-> "list",  result |-> NoResult],
          [kind |-> "error", result |-> NoResult]}

\* grade_answer from the return of _ej on: a failure of _call_with_retry or
\* of _ej propagates, a list has no pop(key, default), a dict is normalised
grade_answer ==
    /\ grade_pc = "ready"
    /\ grade_pc' = "done"
    /\ grade_ctype' = _category_type(category)
    /\ grade_out' = CASE parsed.kind = "error" -> GradeRaised("Exception")
                      [] parsed.kind = "list"  -> GradeRaised("TypeError")
                      [] OTHER -> Normalise(parsed.result, grade_ctype')
    /\ UNCHANGED <<category, parsed>>

(***************************************************************************)
(* Context trimming: _trim and _ollama_trim                                *)
(***************************************************************************)
MaxSmall == 3      \* short texts and small limits go up to this length
MaxOver  == 2      \* long texts are this close to a limit, on either side

\* "\n[truncated]"
TruncationMarker ==
    <<Newline, LBracket, "t", "r", "u", "n", "c", "a", "t", "e", "d", RBracket>>

\* "\n[...]\n"
ElisionMarker == <<Newline, LBracket, ".", ".", ".", RBracket, Newline>>

\* text[:n]
PyHead(s, n) ==
    IF n >= 0 THEN Slice(s, 1, Min(n, Len(s)))
    ELSE Slice(s, 1, Len(s) + n)

\* text[n:], the tail slice without its minus sign
PyTailFromFront(s, n) == Slice(s, Min(n, Len(s)) + 1, Len(s))

\* text[-n:]  (text[-0:] is text[0:], the whole text)
PyTail(s, n) ==
    IF n <= 0 THEN Slice(s, Min(0 - n, Len(s)) + 1, Len(s))
    ELSE Slice(s, Max(1, Len(s) - n + 1), Len(s))

_RESUME_LIMIT == 3000
_JD_LIMIT     == 2000

\* _OLLAMA_CTX.get(task, 400)
_OLLAMA_CTX(t) ==
    CASE t = "plan"   -> 1200
      [] t = "grade"  -> 400
      [] t = "tip"    -> 200
      [] t = "chat"   -> 400
      [] t = "report" -> 400
      [] OTHER        -> 400

\* _trim cutting as soon as the text reaches the limit
_trim_at_limit(s, limit) ==
    IF Len(s) >= limit THEN PyHead(s, limit) \o TruncationMarker ELSE s

_trim(s, limit) ==
    IF Len(s) > limit THEN PyHead(s, limit) \o TruncationMarker ELSE s

\* not text.strip(): strip() leaves nothing exactly when every character
\* of the text is white space
StripsToNothing(s) == \A i \in 1..Len(s) : s[i] \in Whitespace

_ollama_trim(s, t) ==
    IF s = <<>> \/ StripsToNothing(s) THEN <<>>
    ELSE LET limit == _OLLAMA_CTX(t)
             half  == limit \div 2
         IN  IF Len(s) <= limit THEN s
             ELSE PyHead(s, half) \o ElisionMarker \o PyTail(s, half)

\* ---- inputs ----
TrimAlphabet == <<"a", "b", Space, "c", "d", Newline, "e">>

\* a text of n characters whose character at i tells i modulo 7
PatternText(n) == [i \in 1..n |-> TrimAlphabet[((i - 1) % Len(TrimAlphabet)) + 1]]

\* a text of n blanks
BlankText(n) == [i \in 1..n |-> Space]

\* the limits the tasks pass to _trim, and small ones
TrimLimits == (0..MaxSmall) \cup {600, 700, 800, 1000, 1200, _JD_LIMIT, _RESUME_LIMIT}

TrimTasks == {"plan", "grade", "tip", "chat", "report", "other"}

NearLimit == {200, 400, 600, 1200}

TrimLengths == {l + d : l \in NearLimit, d \in (0 - MaxOver)..MaxOver}

TrimTexts ==
    UNION {[1..n -> {"a", Space}] : n \in 0..MaxSmall}
        \cup {PatternText(n) : n \in TrimLengths}
        \cup {BlankText(n) : n \in TrimLengths}

NoTrim == [text |-> <<>>, limit |-> 0, task |-> "none", op |-> "off", out |-> <<>>]

TrimInputs ==
    [text : TrimTexts, limit : TrimLimits, task : TrimTasks, op : {"none"}, out : {<<>>}]

Apply_trim ==
    /\ trim_call.op = "none"
    /\ trim_call' = [trim_call EXCEPT !.op = "_trim",
                                      !.out = _trim(trim_call.text, trim_call.limit)]

Apply_ollama_trim ==
    /\ trim_call.op = "none"
    /\ trim_call' = [trim_call EXCEPT !.op = "_ollama_trim",
                                      !.out = _ollama_trim(trim_call.text, trim_call.task)]

(***************************************************************************)
(* Python strings as TLA+ strings: str.lower, str.title, in, [:n]          *)
(***************************************************************************)
LowerLetters == "abcdefghijklmnopqrstuvwxyz"
UpperLetters == "ABCDEFGHIJKLMNOPQRSTUVWXYZ"

CharAt(s, i) == SubSeq(s, i, i)

\* the position of the one-character string c in alphabet, 0 when absent
LetterIndex(alphabet, c) ==
    IF \E j \in 1..Len(alphabet) : CharAt(alphabet, j) = c
    THEN CHOOSE j \in 1..Len(alphabet) : CharAt(alphabet, j) = c
    ELSE 0

LowerChar(c) ==
    LET j == LetterIndex(UpperLetters, c)
    IN  IF j = 0 THEN c ELSE CharAt(LowerLetters, j)

UpperChar(c) ==
    LET j == LetterIndex(LowerLetters, c)
    IN  IF j = 0 THEN c ELSE CharAt(UpperLetters, j)

IsCased(c) == LetterIndex(LowerLetters, c) # 0 \/ LetterIndex(UpperLetters, c) # 0

\* str.lower()
RECURSIVE StrLowerFrom(_, _)
StrLowerFrom(s, i) ==
    IF i > Len(s) THEN "" ELSE LowerChar(CharAt(s, i)) \o StrLowerFrom(s, i + 1)

StrLower(s) == StrLowerFrom(s, 1)

\* str.title(): a letter that follows a letter is lowered, any other is raised
RECURSIVE StrTitleFrom(_, _)
StrTitleFrom(s, i) ==
    IF i > Len(s) THEN ""
    ELSE LET c == CharAt(s, i)
             after_letter == i > 1 /\ IsCased(CharAt(s, i - 1))
         IN  (IF after_letter THEN LowerChar(c) ELSE UpperChar(c))
                 \o StrTitleFrom(s, i + 1)

StrTitle(s) == StrTitleFrom(s, 1)

\* k in s
StrContains(s, k) ==
    \E i \in 1..(Len(s) - Len(k) + 1) : SubSeq(s, i, i + Len(k) - 1) = k

\* s[:n], n >= 0
StrHead(s, n) == IF Len(s) <= n THEN s ELSE SubSeq(s, 1, n)

\* s.startswith(p)
StrStartsWith(s, p) == Len(p) <= Len(s) /\ SubSeq(s, 1, Len(p)) = p

\* s.endswith(p)
StrEndsWith(s, p) ==
    Len(p) <= Len(s) /\ SubSeq(s, Len(s) - Len(p) + 1, Len(s)) = p

\* the positions of s whose character is not in the set cs
Outside(s, cs) == {i \in 1..Len(s) : CharAt(s, i) \notin cs}

Least(S)    == CHOOSE x \in S : \A y \in S : x <= y
Greatest(S) == CHOOSE x \in S : \A y \in S : x >= y

\* s.strip()
StrStrip(s) ==
    LET keep == Outside(s, {" ", "\n", "\t"})
    IN  IF keep = {} THEN "" ELSE SubSeq(s, Least(keep), Greatest(keep))

\* s.rstrip(c)
StrRStrip(s, c) ==
    LET keep == Outside(s, {c})
    IN  IF keep = {} THEN "" ELSE SubSeq(s, 1, Greatest(keep))

(***************************************************************************)
(* _ollama_root, _ollama_base                                              *)
(***************************************************************************)
MaxPasted == 2     \* most path pieces after the root of a supplied URL

DefaultRoot == "http://localhost:11434"

\* the suffixes of the for loop, in its order
RootSuffixes == <<"/v1/chat/completions", "/v1", "/api/v1", "/api">>

\* if url.endswith(suffix): url = url[: -len(suffix)]
DropSuffix(url, suffix) ==
    IF StrEndsWith(url, suffix) THEN SubSeq(url, 1, Len(url) - Len(suffix)) ELSE url

\* the for loop from its k-th suffix on: one test per suffix
RECURSIVE DropSuffixesFrom(_, _)
DropSuffixesFrom(url, k) ==
    IF k > Len(RootSuffixes) THEN url
    ELSE DropSuffixesFrom(DropSuffix(url, RootSuffixes[k]), k + 1)

_ollama_root(raw_url) ==
    LET stripped == StrRStrip(StrStrip(raw_url), "/")
        filled   == IF stripped = "" THEN DefaultRoot ELSE stripped
        schemed  == IF StrStartsWith(filled, "http") THEN filled ELSE "http://" \o filled
    IN  DropSuffixesFrom(schemed, 1)

_ollama_base(raw_url) == _ollama_root(raw_url) \o "/v1"

\* what a user may put in the credential field of the local backend: a
\* root, the path pieces pasted after it, a closing slash, and blanks
UrlRoots  == {"", "localhost:11434", "http://localhost:11434", "https://ollama.example.com"}
UrlPieces == {RootSuffixes[k] : k \in 1..Len(RootSuffixes)} \cup {"/api/generate"}
UrlEnds   == {"", "/", " ", "/ "}

RECURSIVE JoinPieces(_)
JoinPieces(ps) == IF ps = <<>> THEN "" ELSE ps[1] \o JoinPieces(Tail(ps))

UrlInputs ==
    {(IF lead THEN " " ELSE "") \o r \o JoinPieces(ps) \o e :
        lead \in BOOLEAN, r \in UrlRoots, e \in UrlEnds,
        ps \in UNION {[1..n -> UrlPieces] : n \in 0..MaxPasted}}

NoRoot == [raw |-> "", pc |-> "off", root |-> "", base |-> ""]

RootInputs == [raw : UrlInputs, pc : {"ready"}, root : {""}, base : {""}]

\* get_client and the probes call _ollama_base and _ollama_root on the key
Call_ollama_root ==
    /\ root_call.pc = "ready"
    /\ root_call' = [root_call EXCEPT
            !.pc = "done",
            !.root = _ollama_root(root_call.raw),
            !.base = _ollama_base(root_call.raw)]

(***************************************************************************)
(* The local instance's /api/tags endpoint, and the cloud backends' check  *)
(***************************************************************************)
MaxInstalled == 4     \* the local instance has at most this many models

ModelNames == <<"phi3.5", "llama3.1", "mistral", "qwen2", "gemma2", "llava">>

\* what a probe of a backend does: it answers (for the local instance, with
\* the names of its installed models) or it raises an error with a detail;
\* cause is why it raised, which the code never sees
Answer(names) == [kind |-> "ok", detail |-> "", cause |-> "none", models |-> names]
Raise(detail, cause) == [kind |-> "raise", detail |-> detail, cause |-> cause, models |-> <<>>]

\* the lists of installed models: n distinct names, from the k-th name on,
\* upwards or downwards
InstalledCounts == 0..Min(MaxInstalled, Len(ModelNames))

InstalledLists ==
    {[i \in 1..n |-> ModelNames[((k + i - 2) % Len(ModelNames)) + 1]] :
        n \in InstalledCounts, k \in 1..Len(ModelNames)}
    \cup {[i \in 1..n |-> ModelNames[((k - i + Len(ModelNames)) % Len(ModelNames)) + 1]] :
        n \in InstalledCounts, k \in 1..Len(ModelNames)}

\* urllib.request.urlopen(f"{root}/api/tags") and the decoding of its answer
TagsFailures == {
    Raise("<urlopen error [Errno 111] Connection refused>", "unreachable"),
    Raise("<urlopen error [Errno -3] Temporary failure in name resolution>", "unreachable"),
    Raise("<urlopen error [Errno 113] No route to host>", "unreachable"),
    Raise("<urlopen error timed out>", "unreachable"),
    Raise("timed out", "unreachable"),
    Raise("HTTP Error 401: Unauthorized", "credential"),
    Raise("HTTP Error 404: Not Found", "other"),
    Raise("Expecting value: line 1 column 1 (char 0)", "other"),
    Raise("'list' object has no attribute 'get'", "other"),
    Raise("'name'", "other") }

TagsWorlds == TagsFailures \cup {Answer(l) : l \in InstalledLists}

\* anthropic's messages.create, or models.list() of the OpenAI-compatible client
CloudFailures == {
    Raise("Connection error.", "unreachable"),
    Raise("Request timed out.", "unreachable"),
    Raise("Error code: 401 - {'error': {'message': 'Invalid API Key', 'type': 'invalid_request_error', 'code': 'invalid_api_key'}}", "credential"),
    Raise("Error code: 401 - {'type': 'error', 'error': {'type': 'authentication_error', 'message': 'invalid x-api-key'}}", "credential"),
    Raise("Error code: 429 - {'error': {'message': 'Rate limit reached', 'type': 'tokens', 'code': 'rate_limit_exceeded'}}", "other"),
    Raise("No module named 'openai'", "other"),
    Raise("No module named 'anthropic'", "other") }

CloudWorlds == CloudFailures \cup {Answer(<<>>)}

(***************************************************************************)
(* get_ollama_models                                                       *)
(***************************************************************************)
ModelEntry(label, id) == [label |-> label, id |-> id]

\* the mapping of the except branch
DefaultModels == <<ModelEntry("llama3.2 (default)", "llama3.2"),
                   ModelEntry("llama3.1", "llama3.1"),
                   ModelEntry("mistral", "mistral"),
                   ModelEntry("phi3", "phi3")>>

\* the mapping returned when the instance has no model
NoModelsFound == <<ModelEntry("(no models found - run: ollama pull phi3.5)", "phi3.5")>>

\* {name: name for name in installed}: a dict keeps the first position of a key
RECURSIVE NameToName(_, _)
NameToName(installed, i) ==
    IF i > Len(installed) THEN <<>>
    ELSE IF \E j \in 1..(i - 1) : installed[j] = installed[i]
         THEN NameToName(installed, i + 1)
         ELSE <<ModelEntry(installed[i], installed[i])>> \o NameToName(installed, i + 1)

\* get_ollama_models with an empty dict for an instance without models
get_ollama_models_empty_when_none(w) ==
    IF w.kind = "raise" THEN DefaultModels ELSE NameToName(w.models, 1)

\* the dict get_ollama_models returns in world w, as its items in order
get_ollama_models(w) ==
    IF w.kind = "raise" THEN DefaultModels
    ELSE IF w.models = <<>> THEN NoModelsFound
    ELSE NameToName(w.models, 1)

NoModels == [world |-> Answer(<<>>), pc |-> "off", out |-> <<>>]

ModelsInputs == [world : TagsWorlds, pc : {"ready"}, out : {<<>>}]

Call_get_ollama_models ==
    /\ models_call.pc = "ready"
    /\ models_call' = [models_call EXCEPT !.pc = "done",
                                          !.out = get_ollama_models(models_call.world)]

(***************************************************************************)
(* verify_connection                                                       *)
(***************************************************************************)
VerifyProviders == {"groq", "openai", "anthropic", "openrouter", "together", "ollama"}

\* the messages, without their leading emoji
InvalidKeyMessage  == "Invalid API key - please check and try again."
CannotReachMessage == "Cannot reach Ollama. Run: ollama serve"
ConnectedMessage   == "Connected successfully."
OllamaMessage      == "Ollama connected - local & free!"

\* (ok, message); for the local instance the message also carries a hint:
\* the number of models, the first three names and how many more there are
Verdict(ok, message, count, named, more) ==
    [ok |-> ok, message |-> message, count |-> count, named |-> named, more |-> more]

\* k in str(e).lower(), for a word k of small letters: some part of the
\* detail is k once its capitals are lowered
InLowered(k, detail) ==
    \E i \in 1..(Len(detail) - Len(k) + 1) :
        \A j \in 1..Len(k) : LowerChar(CharAt(detail, i + j - 1)) = CharAt(k, j)

\* the except branch: the class of the error, by the words of its detail
ClassifyFailure(detail) ==
    IF InLowered("authentication", detail) \/ InLowered("unauthorized", detail)
          \/ InLowered("invalid", detail)
    THEN Verdict(FALSE, InvalidKeyMessage, 0, <<>>, 0)
    ELSE IF InLowered("connection", detail) \/ InLowered("timeout", detail)
              \/ InLowered("refused", detail)
    THEN Verdict(FALSE, CannotReachMessage, 0, <<>>, 0)
    ELSE Verdict(FALSE, StrHead(detail, 140), 0, <<>>, 0)

verify_connection(prov, w) ==
    IF w.kind = "raise" THEN ClassifyFailure(w.detail)
    ELSE IF prov = "ollama"
         THEN Verdict(TRUE, OllamaMessage, Len(w.models),
                      SubSeq(w.models, 1, Min(3, Len(w.models))),
                      Max(0, Len(w.models) - 3))
         ELSE Verdict(TRUE, ConnectedMessage, 0, <<>>, 0)

WorldsOf(prov) == IF prov = "ollama" THEN TagsWorlds ELSE CloudWorlds

NoVerify == [provider |-> "none", api_key |-> "", world |-> Answer(<<>>), pc |-> "off",
             out |-> Verdict(FALSE, "", 0, <<>>, 0)]

VerifyInputs ==
    UNION {[provider : {p}, api_key : {"", "key"}, world : WorldsOf(p), pc : {"ready"},
            out : {Verdict(FALSE, "", 0, <<>>, 0)}] : p \in VerifyProviders}

Call_verify_connection ==
    /\ verify_call.pc = "ready"
    /\ verify_call' = [verify_call EXCEPT
            !.pc = "done",
            !.out = verify_connection(verify_call.provider, verify_call.world)]

(***************************************************************************)
(* transcribe_audio                                                        *)
(***************************************************************************)
\* provider_ok of the voice tab
TranscriptionCapable == {"groq", "openai", "ollama"}

TranscribeProviders == {"groq", "openai", "ollama", "anthropic", "openrouter", "together"}

\* what the speech-to-text backend gives: a text, or an error
Transcripts == {<<Space, "h", "i", Newline>>, <<"h", "i">>, <<Space, Newline>>, <<>>}

\* whisper: is faster_whisper installed; backend: what the transcription
\* gives; unlink_ok: does os.unlink succeed
TranscribeWorlds ==
    [whisper : BOOLEAN, backend : {"text", "raise"}, transcript : Transcripts,
     unlink_ok : BOOLEAN]

Returns(t) == [kind |-> "return", err |-> None, message |-> "", text |-> t]
Raises(err, message) == [kind |-> "raise", err |-> err, message |-> message, text |-> <<>>]

UnsupportedMessage(prov) ==
    StrTitle(prov) \o " doesn't support audio transcription. "
        \o "Switch to Groq (free) or OpenAI to use voice recording."

NoWhisperMessage ==
    "Ollama doesn't include speech-to-text. "
        \o "Install faster-whisper for local transcription: "
        \o "pip install faster-whisper  - or switch to Groq (free) "
        \o "for easy cloud transcription."

\* one transcription request to a backend; the local one is faster_whisper
Transcription(backend, w) ==
    [calls |-> <<backend>>,
     out   |-> IF w.backend = "raise" THEN Raises("APIError", "transcription failed")
               ELSE Returns(Strip(w.transcript))]

\* transcribe_audio sending every backend but groq and ollama to Whisper-1
transcribe_audio_openai_otherwise(prov, w) ==
    CASE prov = "groq"   -> Transcription("groq", w)
      [] prov = "ollama" ->
            IF w.whisper THEN Transcription("faster_whisper", w)
            ELSE [calls |-> <<>>, out |-> Raises("ValueError", NoWhisperMessage)]
      [] OTHER -> Transcription("openai", w)

\* the try block of transcribe_audio: the requests it makes and its result
transcribe_audio(prov, w) ==
    CASE prov = "groq"   -> Transcription("groq", w)
      [] prov = "openai" -> Transcription("openai", w)
      [] prov = "ollama" ->
            IF w.whisper THEN Transcription("faster_whisper", w)
            ELSE [calls |-> <<>>, out |-> Raises("ValueError", NoWhisperMessage)]
      [] OTHER -> [calls |-> <<>>, out |-> Raises("ValueError", UnsupportedMessage(prov))]

NoTranscribe == [provider |-> "none", world |-> [whisper |-> FALSE, backend |-> "text",
                     transcript |-> <<>>, unlink_ok |-> TRUE],
                 pc |-> "off", tmp |-> "none", calls |-> <<>>, out |-> Returns(<<>>)]

TranscribeInputs ==
    [provider : TranscribeProviders, world : TranscribeWorlds, pc : {"ready"},
     tmp : {"none"}, calls : {<<>>}, out : {Returns(<<>>)}]

\* the call with a finally clause that lets a failure of os.unlink escape
Call_transcribe_audio_unguarded_unlink ==
    /\ transcribe_call.pc = "ready"
    /\ LET r == transcribe_audio(transcribe_call.provider, transcribe_call.world)
       IN  transcribe_call' = [transcribe_call EXCEPT
                !.pc = "done",
                !.tmp = IF transcribe_call.world.unlink_ok THEN "removed" ELSE "left",
                !.calls = r.calls,
                !.out = IF transcribe_call.world.unlink_ok THEN r.out
                        ELSE Raises("PermissionError", "unlink failed")]

\* the whole call: the temporary file is written, the try block runs, and
\* the finally clause unlinks the file, ignoring a failure to do so
Call_transcribe_audio ==
    /\ transcribe_call.pc = "ready"
    /\ LET r == transcribe_audio(transcribe_call.provider, transcribe_call.world)
       IN  transcribe_call' = [transcribe_call EXCEPT
                !.pc = "done",
                !.tmp = IF transcribe_call.world.unlink_ok THEN "removed" ELSE "left",
                !.calls = r.calls,
                !.out = r.out]

\* ---- page_session, voice tab ----

\* Transcribe & Use This Answer, shown under the question when the stored
\* backend is one of groq, openai, ollama: transcribe_audio returns a text,
\* kept in voice_transcript when it is not blank, or raises
Transcribe ==
    /\ QuestionView
    /\ provider \in TranscriptionCapable
    /\ issued' = Issue("transcribe_audio")
    /\ UNCHANGED <<varsConn, sel_prov, page, varsSess>>

(***************************************************************************)
(* Specifications                                                          *)
(***************************************************************************)
\* Every specification starts the session host from DEFAULTS, with no
\* call of the retry controller under way, and gives the part it studies
\* its inputs.

\* one input text, before _ej or _repair_json is applied to it
InitJson ==
    /\ \E in \in JsonInputs(MaxLen, MaxProse) :
          /\ text = in.text
          /\ json_src = in.src
    /\ json_op = "none"
    /\ json_out = NoOut
    /\ task = None
    /\ temperature = 0
    /\ retries = 0
    /\ attempt = 0
    /\ last_err = NoError
    /\ calls = <<>>
    /\ raw = <<>>
    /\ task_pc = "idle"
    /\ task_out = NoTaskOut
    /\ provider = "groq"
    /\ api_key = <<>>
    /\ model = "llama-3.3-70b-versatile"
    /\ connected = FALSE
    /\ sel_prov = "groq"
    /\ page = "home"
    /\ session_plan = NoPlan
    /\ current_q_idx = 0
    /\ session_data = <<>>
    /\ last_grade = None
    /\ show_tip = FALSE
    /\ followup_mode = FALSE
    /\ session_report = None
    /\ issued = NoCall
    /\ category = "Opener"
    /\ parsed = [kind |-> "error", result |-> NoResult]
    /\ grade_ctype = None
    /\ grade_pc = "off"
    /\ grade_out = NoGrade
    /\ trim_call = NoTrim
    /\ verify_call = NoVerify
    /\ models_call = NoModels
    /\ transcribe_call = NoTranscribe
    /\ root_call = NoRoot

\* before a task enters _call_with_retry
InitRetry ==
    /\ text = <<>>
    /\ json_op = "off"
    /\ json_out = NoOut
    /\ json_src = NoSrc
    /\ task = None
    /\ temperature = 0
    /\ retries = 0
    /\ attempt = 0
    /\ last_err = NoError
    /\ calls = <<>>
    /\ raw = <<>>
    /\ task_pc = "idle"
    /\ task_out = NoTaskOut
    /\ provider = "groq"
    /\ api_key = <<>>
    /\ model = "llama-3.3-70b-versatile"
    /\ connected = FALSE
    /\ sel_prov = "groq"
    /\ page = "home"
    /\ session_plan = NoPlan
    /\ current_q_idx = 0
    /\ session_data = <<>>
    /\ last_grade = None
    /\ show_tip = FALSE
    /\ followup_mode = FALSE
    /\ session_report = None
    /\ issued = NoCall
    /\ category = "Opener"
    /\ parsed = [kind |-> "error", result |-> NoResult]
    /\ grade_ctype = None
    /\ grade_pc = "off"
    /\ grade_out = NoGrade
    /\ trim_call = NoTrim
    /\ verify_call = NoVerify
    /\ models_call = NoModels
    /\ transcribe_call = NoTranscribe
    /\ root_call = NoRoot

\* DEFAULTS, with the sidebar showing its first provider
InitApp ==
    /\ text = <<>>
    /\ json_op = "off"
    /\ json_out = NoOut
    /\ json_src = NoSrc
    /\ task = None
    /\ temperature = 0
    /\ retries = 0
    /\ attempt = 0
    /\ last_err = NoError
    /\ calls = <<>>
    /\ raw = <<>>
    /\ task_pc = "idle"
    /\ task_out = NoTaskOut
    /\ provider = "groq"
    /\ api_key = <<>>
    /\ model = "llama-3.3-70b-versatile"
    /\ connected = FALSE
    /\ sel_prov = "groq"
    /\ page = "home"
    /\ session_plan = NoPlan
    /\ current_q_idx = 0
    /\ session_data = <<>>
    /\ last_grade = None
    /\ show_tip = FALSE
    /\ followup_mode = FALSE
    /\ session_report = None
    /\ issued = NoCall
    /\ category = "Opener"
    /\ parsed = [kind |-> "error", result |-> NoResult]
    /\ grade_ctype = None
    /\ grade_pc = "off"
    /\ grade_out = NoGrade
    /\ trim_call = NoTrim
    /\ verify_call = NoVerify
    /\ models_call = NoModels
    /\ transcribe_call = NoTranscribe
    /\ root_call = NoRoot

\* one category and one parsed response, before grade_answer normalises it
InitGrade ==
    /\ text = <<>>
    /\ json_op = "off"
    /\ json_out = NoOut
    /\ json_src = NoSrc
    /\ task = None
    /\ temperature = 0
    /\ retries = 0
    /\ attempt = 0
    /\ last_err = NoError
    /\ calls = <<>>
    /\ raw = <<>>
    /\ task_pc = "idle"
    /\ task_out = NoTaskOut
    /\ provider = "groq"
    /\ api_key = <<>>
    /\ model = "llama-3.3-70b-versatile"
    /\ connected = FALSE
    /\ sel_prov = "groq"
    /\ page = "home"
    /\ session_plan = NoPlan
    /\ current_q_idx = 0
    /\ session_data = <<>>
    /\ last_grade = None
    /\ show_tip = FALSE
    /\ followup_mode = FALSE
    /\ session_report = None
    /\ issued = NoCall
    /\ category \in Categories
    /\ parsed \in ParsedInputs
    /\ grade_ctype = None
    /\ grade_pc = "ready"
    /\ grade_out = NoGrade
    /\ trim_call = NoTrim
    /\ verify_call = NoVerify
    /\ models_call = NoModels
    /\ transcribe_call = NoTranscribe
    /\ root_call = NoRoot

\* the arguments of one call of one helper, and what the world will answer
InitCalls ==
    /\ text = <<>>
    /\ json_src = NoSrc
    /\ json_op = "off"
    /\ json_out = NoOut
    /\ task = None
    /\ temperature = 0
    /\ retries = 0
    /\ attempt = 0
    /\ last_err = NoError
    /\ calls = <<>>
    /\ raw = <<>>
    /\ task_pc = "idle"
    /\ task_out = NoTaskOut
    /\ provider = "groq"
    /\ api_key = <<>>
    /\ model = "llama-3.3-70b-versatile"
    /\ connected = FALSE
    /\ sel_prov = "groq"
    /\ page = "home"
    /\ session_plan = NoPlan
    /\ current_q_idx = 0
    /\ session_data = <<>>
    /\ last_grade = None
    /\ show_tip = FALSE
    /\ followup_mode = FALSE
    /\ session_report = None
    /\ issued = NoCall
    /\ category = "Opener"
    /\ parsed = [kind |-> "error", result |-> NoResult]
    /\ grade_ctype = None
    /\ grade_pc = "off"
    /\ grade_out = NoGrade
    /\ \/ /\ trim_call \in TrimInputs
          /\ verify_call = NoVerify
          /\ models_call = NoModels
          /\ transcribe_call = NoTranscribe
          /\ root_call = NoRoot
       \/ /\ trim_call = NoTrim
          /\ verify_call \in VerifyInputs
          /\ models_call = NoModels
          /\ transcribe_call = NoTranscribe
          /\ root_call = NoRoot
       \/ /\ trim_call = NoTrim
          /\ verify_call = NoVerify
          /\ models_call \in ModelsInputs
          /\ transcribe_call = NoTranscribe
          /\ root_call = NoRoot
       \/ /\ trim_call = NoTrim
          /\ verify_call = NoVerify
          /\ models_call = NoModels
          /\ transcribe_call \in TranscribeInputs
          /\ root_call = NoRoot
       \/ /\ trim_call = NoTrim
          /\ verify_call = NoVerify
          /\ models_call = NoModels
          /\ transcribe_call = NoTranscribe
          /\ root_call \in RootInputs

NextJson ==
    \/ Apply_ej /\ UNCHANGED <<varsRetry, varsApp, varsGrade, varsCalls>>
    \/ Apply_repair_json /\ UNCHANGED <<varsRetry, varsApp, varsGrade, varsCalls>>

SpecJson == InitJson /\ [][NextJson]_vars

NextRetry ==
    \/ StartTask /\ UNCHANGED <<varsJson, varsApp, varsGrade, varsCalls>>
    \/ call_llm_raises /\ UNCHANGED <<varsJson, varsApp, varsGrade, varsCalls>>
    \/ call_llm_returns /\ UNCHANGED <<varsJson, varsApp, varsGrade, varsCalls>>

SpecRetry == InitRetry /\ [][NextRetry]_vars

NextApp ==
    \/ SelectProvider /\ UNCHANGED <<varsJson, varsRetry, varsGrade, varsCalls>>
    \/ Connect /\ UNCHANGED <<varsJson, varsRetry, varsGrade, varsCalls>>
    \/ Navigate /\ UNCHANGED <<varsJson, varsRetry, varsGrade, varsCalls>>
    \/ HomeStartSession /\ UNCHANGED <<varsJson, varsRetry, varsGrade, varsCalls>>
    \/ StartFullSession /\ UNCHANGED <<varsJson, varsRetry, varsGrade, varsCalls>>
    \/ StartQuickSession /\ UNCHANGED <<varsJson, varsRetry, varsGrade, varsCalls>>
    \/ GoToSetup /\ UNCHANGED <<varsJson, varsRetry, varsGrade, varsCalls>>
    \/ GenerateReport /\ UNCHANGED <<varsJson, varsRetry, varsGrade, varsCalls>>
    \/ NewSession /\ UNCHANGED <<varsJson, varsRetry, varsGrade, varsCalls>>
    \/ FollowupContinue /\ UNCHANGED <<varsJson, varsRetry, varsGrade, varsCalls>>
    \/ FollowupNext /\ UNCHANGED <<varsJson, varsRetry, varsGrade, varsCalls>>
    \/ Discuss /\ UNCHANGED <<varsJson, varsRetry, varsGrade, varsCalls>>
    \/ NextQuestion /\ UNCHANGED <<varsJson, varsRetry, varsGrade, varsCalls>>
    \/ Finish /\ UNCHANGED <<varsJson, varsRetry, varsGrade, varsCalls>>
    \/ GetHint /\ UNCHANGED <<varsJson, varsRetry, varsGrade, varsCalls>>
    \/ SubmitAnswer /\ UNCHANGED <<varsJson, varsRetry, varsGrade, varsCalls>>
    \/ Skip /\ UNCHANGED <<varsJson, varsRetry, varsGrade, varsCalls>>
    \/ GenerateReportOnPage /\ UNCHANGED <<varsJson, varsRetry, varsGrade, varsCalls>>
    \/ FreeChatSend /\ UNCHANGED <<varsJson, varsRetry, varsGrade, varsCalls>>
    \/ Transcribe /\ UNCHANGED <<varsJson, varsRetry, varsGrade, varsCalls>>

SpecApp == InitApp /\ [][NextApp]_vars

NextGrade ==
    grade_answer /\ UNCHANGED <<varsJson, varsRetry, varsApp, varsCalls>>

SpecGrade == InitGrade /\ [][NextGrade]_vars

NextCalls ==
    \/ Apply_trim /\ UNCHANGED <<varsJson, varsRetry, varsApp, varsGrade,
                                 verify_call, models_call, transcribe_call, root_call>>
    \/ Apply_ollama_trim /\ UNCHANGED <<varsJson, varsRetry, varsApp, varsGrade,
                                        verify_call, models_call, transcribe_call, root_call>>
    \/ Call_verify_connection /\ UNCHANGED <<varsJson, varsRetry, varsApp, varsGrade,
                                             trim_call, models_call, transcribe_call, root_call>>
    \/ Call_get_ollama_models /\ UNCHANGED <<varsJson, varsRetry, varsApp, varsGrade,
                                             trim_call, verify_call, transcribe_call, root_call>>
    \/ Call_transcribe_audio /\ UNCHANGED <<varsJson, varsRetry, varsApp, varsGrade,
                                            trim_call, verify_call, models_call, root_call>>
    \/ Call_ollama_root /\ UNCHANGED <<varsJson, varsRetry, varsApp, varsGrade,
                                       trim_call, verify_call, models_call,
                                       transcribe_call>>

SpecCalls == InitCalls /\ [][NextCalls]_vars

(***************************************************************************)
(* Claims about the Retry Controller                                       *)
(***************************************************************************)
TaskDone == task_pc \in {"returned", "raised"}

Failed(i) == calls[i].outcome # "ok"

ParseErrors == {"ValueError", "JSONDecodeError"}

\* C1: a structured task surfaces a parse failure of the backend's text
\* only after it has made every attempt up to the ceiling
C1_ParseFailureRetried ==
    (task \in Tasks /\ task_pc = "raised" /\ task_out.err.kind \in ParseErrors)
        => Len(calls) = retries

\* C2: no backend call is made after one that failed with an
\* authentication failure
C2_AuthNotRetried ==
    \A i \in 1..Len(calls) :
        calls[i].outcome = "AuthenticationError" => i = Len(calls)

\* C3: the backend is never invoked more than retries times, and when every
\* attempt failed it was invoked exactly retries times and the task failed
\* with the error of the last attempt
C3_ExhaustedRaisesLast ==
    /\ Len(calls) <= retries
    /\ (TaskDone /\ \A i \in 1..Len(calls) : Failed(i))
          => /\ Len(calls) = retries
             /\ task_pc = "raised"
             /\ task_out.err = Error(calls[retries].outcome, retries)

C3_Witness ==
    /\ task_pc = "raised"
    /\ Len(calls) = DefaultRetries
    /\ \A i \in 1..Len(calls) : Failed(i)
    /\ calls[1].outcome # calls[3].outcome
    /\ calls[2].outcome # calls[3].outcome

\* attempts 1 and 2 failed and attempt 3 succeeded
ThirdAttemptSucceeded ==
    /\ Len(calls) = 3
    /\ Failed(1) /\ Failed(2) /\ ~Failed(3)

\* C4 as claimed: for every starting temperature, _call_with_retry returns
\* the attempt-3 response and attempt 3 ran strictly cooler than attempt 1
C4_StrictlyLowerAlways ==
    ThirdAttemptSucceeded
        => /\ raw = calls[3].response
           /\ calls[3].temperature < calls[1].temperature

\* C4 as amended: _call_with_retry returns the attempt-3 response; attempt 3
\* ran strictly cooler than attempt 1 when the starting temperature is above
\* the floor, and both ran at the floor otherwise
C4_StrictlyLowerAboveFloor ==
    ThirdAttemptSucceeded
        => /\ raw = calls[3].response
           /\ temperature > MinTemperature
                 => calls[3].temperature < calls[1].temperature
           /\ temperature <= MinTemperature
                 => /\ calls[1].temperature = MinTemperature
                    /\ calls[3].temperature = MinTemperature

C4_Witness ==
    /\ ThirdAttemptSucceeded
    /\ task = "_call_with_retry"
    /\ temperature = MinTemperature + 1
    /\ raw # <<>>

(***************************************************************************)
(* Claims about the Text Repair Engine                                     *)
(***************************************************************************)
\* C5: from a complete JSON text surrounded by prose and/or wrapped in a
\* fenced code block, _ej returns the value of the JSON text itself
C5_WrappedJsonExtracted ==
    (json_op = "_ej" /\ json_src.kind = "wrapped")
        => json_out.ej = Returned(Loads(json_src.inner).v)

\* C6: the repair of a JSON object text damaged by a dangling open string,
\* by missing closers or by a trailing comma parses, and when only closers
\* are missing it parses to the value of the undamaged text
C6_DamagedObjectRepaired ==
    (json_op = "_repair_json" /\ json_src.kind \in {"dangling", "closers", "comma"})
        => /\ Loads(json_out.repaired).ok
           /\ json_src.kind = "closers"
                 => Loads(json_out.repaired).v = Loads(json_src.inner).v

\* _repair_json was applied to a text that is valid JSON
RepairedValid == json_op = "_repair_json" /\ Loads(text).ok

\* C7 as claimed: _repair_json returns every valid JSON text unchanged
C7_ValidUnchanged == RepairedValid => json_out.repaired = text

\* C7 as amended: _repair_json returns a valid JSON text with its trailing
\* whitespace removed and otherwise unchanged, so the result has the same
\* value and repairing it again changes nothing
C7_ValidUnchangedButTrailingSpace ==
    RepairedValid
        => /\ json_out.repaired = RStrip(text)
           /\ Loads(json_out.repaired) = Loads(text)
           /\ _repair_json(json_out.repaired) = json_out.repaired

C7_Witness ==
    /\ RepairedValid
    /\ Loads(text).v.t = "obj"
    /\ Find(text, LBracket) # 0
    /\ text[Len(text)] \in Whitespace
    /\ json_out.repaired # text

\* the elements of the what_missed array of the value v
MissedItems(v) == IF Missed \in DOMAIN v.m THEN v.m[Missed].items ELSE <<>>

\* C8: from a grading response in an unclosed json fence cut inside its
\* what_missed array, _ej returns an object whose what_missed array starts
\* with the elements that were complete before the cut
C8_TruncatedGradeExtracted ==
    (json_op = "_ej" /\ json_src.kind = "what_missed")
        => /\ json_out.ej.ok
           /\ json_out.ej.v.t = "obj"
           /\ Missed \in DOMAIN json_out.ej.v.m
           /\ Len(MissedItems(json_out.ej.v)) >= Len(json_src.elems)
           /\ \A i \in 1..Len(json_src.elems) :
                 MissedItems(json_out.ej.v)[i] = Loads(json_src.elems[i]).v

(***************************************************************************)
(* Claims about the session host                                           *)
(***************************************************************************)
\* C9: while the provider selected in the sidebar differs from the provider
\* of the last successful connect, connected is false and no task call is
\* made with the stored model id
C9_SwitchInvalidates ==
    /\ sel_prov # provider => ~connected
    /\ issued # NoCall => issued.sel_prov = issued.provider

(***************************************************************************)
(* Claims about grade_answer                                               *)
(***************************************************************************)
LabelsOf(ctype) ==
    CASE ctype = "opener"  -> OpenerLabels
      [] ctype = "closing" -> ClosingLabels
      [] OTHER             -> StarLabels
KeysOf(ctype) ==
    CASE ctype = "opener"  -> OpenerKeys
      [] ctype = "closing" -> ClosingKeys
      [] OTHER             -> StarKeys
Range(q) == {q[i] : i \in 1..Len(q)}

\* C10: for every response that parses to a JSON object, the result has the
\* rubric_labels of the category's rubric, and rubric_scores has exactly the
\* 4 keys of that rubric, each value within 0..25
C10_RubricOfCategory ==
    (grade_pc = "done" /\ parsed.kind = "dict") =>
        /\ grade_out.ok
        /\ grade_out.result.rubric_labels = List(LabelsOf(_category_type(category)))
        /\ grade_out.result.rubric_scores.kind = "dict"
        /\ Len(grade_out.result.rubric_scores.d) = 4
        /\ Range(Keys(grade_out.result.rubric_scores.d)) =
               Range(KeysOf(_category_type(category)))
        /\ \A v \in Range(Values(grade_out.result.rubric_scores.d)) : v \in 0..25

\* C11: for every response that parses to a JSON object, the result holds
\* rubric_scores, rubric_labels and star_scores, and star_scores gives
\* situation, task, action, result the 1st, 2nd, 3rd, 4th value of
\* rubric_scores
C11_StarScoresPositional ==
    (grade_pc = "done" /\ parsed.kind = "dict") =>
        /\ grade_out.ok
        /\ grade_out.result.rubric_scores.has
        /\ grade_out.result.rubric_labels.has
        /\ grade_out.result.star_scores.has
        /\ grade_out.result.star_scores.kind = "dict"
        /\ Len(grade_out.result.rubric_scores.d) >= 4
        /\ \A i \in 1..4 :
              Get(grade_out.result.star_scores.d, StarKeys[i], None) =
                  Values(grade_out.result.rubric_scores.d)[i]

(***************************************************************************)
(* Claims about the session plan and the report                            *)
(***************************************************************************)
\* C12: no plan that lacks the question list, or has fewer than 1 question,
\* is stored as the active session
C12_NoPlanWithoutQuestions ==
    session_plan.active => (session_plan.has_pool /\ session_plan.total_q >= 1)

\* C13: the active session's plan has exactly 10 question records, with the
\* ids 1..10 in order, the first an Opener and the last a Closing
C13_TenOrderedQuestions ==
    session_plan.active =>
        /\ Len(session_plan.pool) = 10
        /\ \A i \in 1..Len(session_plan.pool) : session_plan.pool[i].id = i
        /\ session_plan.pool[1].category = "Opener"
        /\ session_plan.pool[Len(session_plan.pool)].category = "Closing"

\* the latest UI event called build_session_report
ReportRequested == issued.fn = "build_session_report"

\* question q of the plan (0-based) has a grade record in session_data
Graded(q) == \E i \in 1..Len(session_data) : session_data[i].q = q

\* C14 as claimed: build_session_report is only called when every question
\* of the active plan has a grade record
C14_ReportOnlyWhenAllAnswered ==
    ReportRequested => \A q \in 0..(total_q - 1) : Graded(q)

\* C14 as amended: build_session_report is only called from the session page
\* once current_q_idx has passed every question of the plan, graded or
\* skipped, or from the report page when there is at least one grade record
C14_ReportOnlyWhenAllPassedOrOnReportPage ==
    ReportRequested =>
        \/ session_plan.active /\ current_q_idx >= total_q
        \/ page = "report" /\ session_data # <<>>

\* the report was requested on the session page after a skip
C14_Witness ==
    /\ ReportRequested
    /\ page = "session"
    /\ total_q >= 2
    /\ current_q_idx >= total_q
    /\ Graded(0)
    /\ ~Graded(1)

(***************************************************************************)
(* Claims about _category_type                                             *)
(***************************************************************************)
\* C15 as claimed: _category_type gives opener for Opener, closing for
\* Closing and star for every other string
C15_OnlyTheTwoLabels ==
    grade_pc = "done" =>
        grade_ctype = CASE category = "Opener"  -> "opener"
                  [] category = "Closing" -> "closing"
                  [] OTHER                -> "star"

\* C15 as amended: _category_type gives opener for Opener in any letter
\* case, closing for Closing in any letter case, and star for every other
\* string, a label with a space after it and the empty string included
C15_TheTwoLabelsInAnyCase ==
    grade_pc = "done" =>
        grade_ctype = CASE category \in {"Opener", "OPENER"}   -> "opener"
                  [] category \in {"Closing", "closing"} -> "closing"
                  [] OTHER                               -> "star"

C15_Witness ==
    /\ grade_pc = "done"
    /\ category = "OPENER"
    /\ grade_ctype = "opener"

(***************************************************************************)
(* Claims about context trimming                                           *)
(***************************************************************************)
\* s ends with suffix
EndsWithSeq(s, suffix) ==
    /\ Len(s) >= Len(suffix)
    /\ SubSeq(s, Len(s) - Len(suffix) + 1, Len(s)) = suffix

\* C16: _trim returns a text of at most limit characters unchanged; of a
\* longer text it returns a text whose first limit characters are those of
\* the original and which ends with the truncation marker
C16_HeadTrim ==
    trim_call.op = "_trim" =>
        /\ Len(trim_call.text) <= trim_call.limit => trim_call.out = trim_call.text
        /\ Len(trim_call.text) > trim_call.limit =>
              /\ Len(trim_call.out) >= trim_call.limit
              /\ \A i \in 1..trim_call.limit : trim_call.out[i] = trim_call.text[i]
              /\ EndsWithSeq(trim_call.out, TruncationMarker)

C16_Witness ==
    /\ trim_call.op = "_trim"
    /\ trim_call.limit > 0
    /\ Len(trim_call.text) = trim_call.limit + 1
    /\ trim_call.out # trim_call.text

\* the first limit/2 characters of the text, the elision marker, and the
\* last limit/2 characters of the text
HeadMarkerTail(s, limit) ==
    [i \in 1..(limit \div 2) |-> s[i]]
        \o ElisionMarker
        \o [i \in 1..(limit \div 2) |-> s[Len(s) - (limit \div 2) + i]]

Blank(s) == \A i \in 1..Len(s) : s[i] \in Whitespace

\* C17 as claimed: of every text longer than the task's limit _ollama_trim
\* returns the first limit/2 characters, the elision marker and the last
\* limit/2 characters
C17_HeadTailTrim ==
    (trim_call.op = "_ollama_trim"
        /\ Len(trim_call.text) > _OLLAMA_CTX(trim_call.task))
    => trim_call.out = HeadMarkerTail(trim_call.text, _OLLAMA_CTX(trim_call.task))

\* C17 as amended: of every text longer than the task's limit that has a
\* character other than white space _ollama_trim returns the first limit/2
\* characters, the elision marker and the last limit/2 characters; of a
\* text of white space only, however long, it returns the empty text
C17_HeadTailTrimUnlessBlank ==
    (trim_call.op = "_ollama_trim"
        /\ Len(trim_call.text) > _OLLAMA_CTX(trim_call.task))
    => trim_call.out =
          IF Blank(trim_call.text) THEN <<>>
          ELSE HeadMarkerTail(trim_call.text, _OLLAMA_CTX(trim_call.task))

C17_Witness ==
    /\ trim_call.op = "_ollama_trim"
    /\ trim_call.task = "tip"
    /\ Len(trim_call.text) = _OLLAMA_CTX("tip") + 1
    /\ ~Blank(trim_call.text)
    /\ Len(trim_call.out) = _OLLAMA_CTX("tip") + Len(ElisionMarker)

(***************************************************************************)
(* Claims about verify_connection and get_ollama_models                    *)
(***************************************************************************)
\* C18: verify_connection answers every failure with (False, message), and
\* every failure whose cause is an unreachable endpoint with the message
\* that the service is not running
C18_UnreachableIsNotRunning ==
    (verify_call.pc = "done" /\ verify_call.world.kind = "raise")
    => /\ verify_call.out.ok = FALSE
       /\ verify_call.world.cause = "unreachable"
              => verify_call.out.message = CannotReachMessage

\* the entry's label says more than the model id it maps to
Marked(e) == e.label # e.id

\* C19 as claimed: when the instance is unreachable or has no model,
\* get_ollama_models returns a mapping that is not empty and whose entries
\* are marked placeholders; when models are installed it returns one
\* label -> id entry for each
C19_PlaceholderOrInstalled ==
    models_call.pc = "done" =>
        IF models_call.world.kind = "raise" \/ models_call.world.models = <<>>
        THEN /\ models_call.out # <<>>
             /\ \A i \in 1..Len(models_call.out) : Marked(models_call.out[i])
        ELSE /\ Len(models_call.out) = Len(models_call.world.models)
             /\ \A i \in 1..Len(models_call.out) :
                    /\ models_call.out[i].label = models_call.world.models[i]
                    /\ models_call.out[i].id = models_call.world.models[i]

\* C19 as amended: when the request to the instance fails, whatever the
\* cause, get_ollama_models returns four default models, llama3.2 (under
\* the label "llama3.2 (default)"), llama3.1, mistral and phi3, the last
\* three under their own names; when the instance has no model it returns
\* one marked placeholder entry, for phi3.5; when models are installed it
\* returns one name -> name entry for each, in the order reported
C19_DefaultsPlaceholderOrInstalled ==
    models_call.pc = "done" =>
        CASE models_call.world.kind = "raise" ->
                /\ [i \in 1..Len(models_call.out) |-> models_call.out[i].id]
                       = <<"llama3.2", "llama3.1", "mistral", "phi3">>
                /\ Marked(models_call.out[1])
                /\ \A i \in 2..4 : ~Marked(models_call.out[i])
          [] models_call.world.kind = "ok" /\ models_call.world.models = <<>> ->
                /\ Len(models_call.out) = 1
                /\ StrStartsWith(models_call.out[1].label, "(no models found")
                /\ models_call.out[1].id = "phi3.5"
          [] OTHER ->
                /\ Len(models_call.out) = Len(models_call.world.models)
                /\ \A i \in 1..Len(models_call.out) :
                       /\ models_call.out[i].label = models_call.world.models[i]
                       /\ models_call.out[i].id = models_call.world.models[i]

C19_Witness ==
    /\ models_call.pc = "done"
    /\ models_call.world.kind = "ok"
    /\ models_call.world.models = <<>>
    /\ Len(models_call.out) = 1

C21_NeverBlankTranscript ==
    (transcribe_call.pc = "done"
        /\ transcribe_call.provider \in TranscriptionCapable
        /\ transcribe_call.out.kind = "return")
    => /\ transcribe_call.out.text # <<>>
       /\ ~Blank(transcribe_call.out.text)

\* the text _ej searches: the input with plain quotes, or the stripped
\* content of its first fenced block
EjSearched(txt) ==
    LET t1    == ReplaceSmartQuotes(txt)
        fence == FenceMatch(t1)
    IN  IF fence.matched THEN Strip(fence.group) ELSE t1

\* the searched text holds an opening brace or bracket
EjLocates(txt) ==
    Find(EjSearched(txt), LBrace) # 0 \/ Find(EjSearched(txt), LBracket) # 0

\* the candidate _ej hands to json.loads: from the first opener to the
\* character that closes it, or to the end of the text when none does
EjCandidate(txt) ==
    LET t2  == EjSearched(txt)
        p   == PickStart(Find(t2, LBrace), Find(t2, LBracket))
        end == EjScan(t2, p.start, p.oc, p.cc,
                      [depth |-> 0, in_str |-> FALSE, esc |-> FALSE])
    IN  Slice(t2, p.start, IF end # 0 THEN end ELSE Len(t2))

\* the candidate of txt parses neither as it is nor after _repair_json
EjCandidateBeyondRepair(txt) ==
    /\ ~Blank(txt)
    /\ EjLocates(txt)
    /\ ~Loads(EjCandidate(txt)).ok
    /\ ~Loads(_repair_json(EjCandidate(txt))).ok

\* C22: _ej raises and returns no value when its input is empty or only
\* whitespace, when the input holds neither an opening brace nor an opening
\* bracket, and when the candidate it locates is not valid JSON even after
\* _repair_json
C22_EjFailsWithoutValue ==
    json_op = "_ej"
    => /\ Blank(text) => json_out.ej = Raised("ValueError")
       /\ (Find(text, LBrace) = 0 /\ Find(text, LBracket) = 0)
             => json_out.ej = Raised("ValueError")
       /\ EjCandidateBeyondRepair(text) => json_out.ej = Raised("JSONDecodeError")

C22_Witness ==
    /\ json_op = "_ej"
    /\ EjCandidateBeyondRepair(text)
    /\ Len(EjCandidate(text)) >= 2
    /\ ~json_out.ej.ok

\* the text u ends with one of the suffixes _ollama_root strips
EndsWithRootSuffix(u) == \E k \in 1..Len(RootSuffixes) : StrEndsWith(u, RootSuffixes[k])

\* C23: _ollama_root gives http://localhost:11434 for a blank input; its
\* result never ends with /v1/chat/completions, /v1, /api/v1 or /api, and
\* normalising the result again changes nothing; the request base is the
\* root followed by /v1
C23_RootNormalised ==
    root_call.pc = "done"
    => /\ StrStrip(root_call.raw) = "" => root_call.root = DefaultRoot
       /\ ~EndsWithRootSuffix(root_call.root)
       /\ _ollama_root(root_call.root) = root_call.root
       /\ root_call.base = root_call.root \o "/v1"

\* the prompt of attempt k > 1: the caller's prompt and the one instruction
\* that carries the number k
PromptWithInstruction(k) == Prompt \o <<[part |-> "json_only", n |-> k]>>

\* what the claim says of every attempt after the first, and of the whole
\* series of attempts
LaterAttemptsAsClaimed ==
    \A k \in 1..Len(calls) :
       /\ k = 1 => calls[k].prompt = Prompt
       /\ k > 1 => /\ calls[k].prompt = PromptWithInstruction(k)
                   /\ calls[k].temperature
                         = Max(MinTemperature, temperature - Decrement * (k - 1))
                   /\ calls[k].temperature <= calls[k - 1].temperature
       /\ temperature >= MinTemperature => calls[k].temperature >= MinTemperature

\* C24 as claimed: attempt 1 passes the caller's prompt and temperature
\* unchanged; attempt k > 1 passes the prompt with exactly one JSON-only
\* instruction and the temperature max(0.1, t - 0.05 (k - 1)); the
\* temperature never rises from one attempt to the next and stays at or
\* above the floor when t is
C24_AttemptArguments ==
    /\ LaterAttemptsAsClaimed
    /\ Len(calls) >= 1 => calls[1].temperature = temperature

\* C24 as amended: as claimed, but attempt 1 passes the temperature
\* max(0.1, t), which is the caller's temperature only when t is at or
\* above the floor
C24_AttemptArgumentsFloored ==
    /\ LaterAttemptsAsClaimed
    /\ Len(calls) >= 1
          => /\ calls[1].temperature = Max(MinTemperature, temperature)
             /\ temperature >= MinTemperature => calls[1].temperature = temperature

C24_Witness ==
    /\ Len(calls) = 3
    /\ temperature = MinTemperature - 1
    /\ calls[1].temperature = MinTemperature
    /\ calls[3].prompt = PromptWithInstruction(3)

\* the stored connection tuple: credential, backend identity, model id
ConnectionTuple == <<api_key, provider, model>>

\* what the Connect button does in the current state, for every content of
\* the key field and every answer of verify_connection: nothing at all for
\* a blank key and a cloud backend; after a failed verification only
\* connected is set to false; after a successful one the three parts of the
\* tuple are those of this connect
ConnectButtonAsClaimed ==
    \A key_in \in KeyInputs, model_val \in ModelsOf(sel_prov), ok \in BOOLEAN :
       LET after == ConnectButton(key_in, model_val, ok)
           blank_cloud == Strip(key_in) = <<>> /\ sel_prov # "ollama"
       IN  /\ blank_cloud
                => after = Connection(FALSE, api_key, provider, model, connected)
           /\ ~blank_cloud => after.verified
           /\ (after.verified /\ ~ok)
                => after = Connection(TRUE, api_key, provider, model, FALSE)
           /\ (after.verified /\ ok)
                => after = Connection(TRUE, Strip(key_in), sel_prov, model_val, TRUE)

\* a step that changes the tuple is a successful connect, which stores a
\* stripped key, the selected backend and one of its models together; a
\* step that takes connected from true to false leaves the tuple alone
TupleStepAsClaimed ==
    /\ ConnectionTuple' # ConnectionTuple
          => /\ connected'
             /\ provider' = sel_prov
             /\ model' \in ModelsOf(sel_prov)
             /\ \E key_in \in KeyInputs : api_key' = Strip(key_in)
             /\ sel_prov # "ollama" => api_key' # <<>>
    /\ (connected /\ ~connected') => ConnectionTuple' = ConnectionTuple

\* C25: the connection tuple changes only in a connect whose verification
\* succeeded, which replaces credential, backend and model together; a
\* connect whose verification fails only sets connected to false; a connect
\* with a blank key for a cloud backend verifies nothing and changes nothing
C25_TupleOnlyByVerifiedConnect ==
    /\ []ConnectButtonAsClaimed
    /\ [][TupleStepAsClaimed]_vars

\* a successful connect to openai was followed by a failed connect to
\* anthropic
C25_Witness ==
    /\ ~connected
    /\ provider = "openai"
    /\ api_key = <<"j">>
    /\ model = "gpt-4o"
    /\ sel_prov = "anthropic"

\* C26: every task call (plan building, grading, tip, follow-up chat,
\* report, free chat, transcription) is issued with connected true
C26_NoTaskCallWhileDisconnected ==
    issued # NoCall => issued.connected

\* C27: while a session plan is active the question index is at least 0
\* and at most the number of questions of the plan, and wherever the page
\* looks up the current question the index is below that number
C27_IndexInBounds ==
    session_plan.active
    => /\ current_q_idx >= 0
       /\ current_q_idx <= total_q
       /\ (QuestionView \/ GradeView \/ FollowupView)
             => current_q_idx + 1 \in 1..Len(session_plan.pool)

\* the index has reached the end of a plan of several questions, one of
\* them answered
C27_Witness ==
    /\ OnSession
    /\ total_q >= 2
    /\ current_q_idx = total_q
    /\ session_data # <<>>

\* C28: session_data holds at most one grade record per question index and
\* its records are in question order; it is never longer than
\* current_q_idx + 1, and it is that long only while the grade of the
\* current question is held in last_grade
C28_GradedAtMostOnce ==
    /\ \A i, j \in 1..Len(session_data) :
          i < j => session_data[i].q < session_data[j].q
    /\ Len(session_data) <= current_q_idx + 1
    /\ Len(session_data) = current_q_idx + 1 => last_grade # None

\* the second of two questions has just been graded, after the first
C28_Witness ==
    /\ GradeView
    /\ current_q_idx = 1
    /\ Len(session_data) = 2
    /\ session_data[1].q = 0
    /\ session_data[2].q = 1

\* the step is a Submit Answer whose grade_answer call returned a grade
GradeStored ==
    /\ session_data' = Append(session_data, [q |-> current_q_idx])
    /\ last_grade' # None
    /\ current_q_idx' = current_q_idx

\* the step left the session as it was, on the same question, which can be
\* submitted again
GradeFailed ==
    /\ UNCHANGED <<session_plan, current_q_idx, session_data, last_grade, show_tip,
                   followup_mode, session_report, page>>
    /\ QuestionView'

\* C29: a Submit Answer either stores the grade or, when grade_answer
\* fails, leaves session_data, current_q_idx and last_grade as they were,
\* appends no partial record, and leaves the question open for another
\* submission
C29_FailedGradeChangesNothing ==
    [][issued'.fn = "grade_answer" => (GradeStored \/ GradeFailed)]_vars

\* grade_answer has just failed on the second question, after the first
\* was graded
C29_Witness ==
    /\ issued.fn = "grade_answer"
    /\ QuestionView
    /\ current_q_idx = 1
    /\ Len(session_data) = 1
    /\ session_data[1].q = 0

\* transcribe_audio has returned or raised, and its result is that of its
\* try block
TranscribeResultKept ==
    transcribe_call.out
        = transcribe_audio(transcribe_call.provider, transcribe_call.world).out

====
